---- MODULE Spec2Model ----
(***************************************************************************)
(* A model of KodiDevKit's InfoProvider (libs/InfoProvider.py) and of the  *)
(* helpers it uses from libs/utils.py.                                     *)
(*                                                                         *)
(* The module holds several specifications over one set of variables, one  *)
(* per part of the program:                                                *)
(*   SpecBrackets  utils.check_brackets, one loop iteration per step       *)
(*   SpecChecks    the cross-reference check passes of InfoProvider,       *)
(*                 run on a loaded project, one whole pass per step        *)
(*   SpecBuild     InfoProvider.update_includes on the include files of    *)
(*                 one folder, one statement per step                      *)
(*   SpecLabels    the label catalogs: get_settings, get_builtin_label,    *)
(*                 init_addon, update_labels, return_label, one call per   *)
(*                 step                                                    *)
(*   SpecResolve   resolve_include and resolve_includes on a built         *)
(*                 registry, one call per step                             *)
(*   SpecRebuild   update_include_list on one thread and the registry      *)
(*                 reads of a check pass on another, one statement per     *)
(*                 step                                                    *)
(*   SpecFile      check_file, and the untranslated-text rule of           *)
(*                 check_labels, on one parsed window file, one call per   *)
(*                 step                                                    *)
(*   SpecBusy      calls of check_busy-decorated functions on one object   *)
(*   SpecBusyFair  SpecBusy where every started call goes on to its end    *)
(*                 from several threads, one statement per step            *)
(*   SpecRetry     one call of a function wrapped by retry, one            *)
(*                 invocation of the function per step                     *)
(*   SpecProjects  init_addon on one project after another, one call per   *)
(*                 step                                                    *)
(* Each specification leaves the variables of the other parts at their     *)
(* idle values.                                                            *)
(***************************************************************************)
EXTENDS Integers, Sequences, FiniteSets, TLC

VARIABLES
    \* ---- check_brackets (utils.py 223-240)
    label,      \* the argument: a sequence of one-character strings
    idx,        \* position of the for loop in label (next character to read)
    stack,      \* the local list `stack`
    ret,        \* "running", or the value returned: "True" / "False"
    \* ---- the project on disk (what os.path.exists / get_root_from_file see)
    disk,       \* window files: path -> [parses, root_id, lines]
    inc_disk,   \* include files: path -> sequence of nodes under <includes>
    font_disk,  \* font-set files: folder -> sequence of <font> nodes (partial)
    \* ---- InfoProvider fields (InfoProvider.py 10-26)
    xml_folders,
    window_file_list,
    include_list,
    include_file_list,
    fonts,
    color_list,
    string_list,
    \* ---- the last check pass: [op, raised, listitems]
    result,
    \* ---- update_includes (InfoProvider.py 124-137), one statement per step
    inc_unparsable, \* include files that exist but do not parse
    frames,         \* the calls of update_includes in progress: [xml_file, i]
    outcome,        \* "running", "returned", "AttributeError" or "unbounded"
    \* ---- the label catalogs (InfoProvider.py 185-232)
    po_disk,            \* strings.po files: path -> sequence of entries (partial)
    addon_desc,         \* what addon.xml of the project is
    addon_xml_file,
    builtin_list,
    addon_string_list,
    settings_loaded,
    use_native,
    label_result,       \* the last call: [op, sel, out, raised]
    \* ---- the include inliner (InfoProvider.py 417-436)
    resolve_result,     \* the last call: [op, folder, arg, out]
    xml_tree,           \* the tree object the caller passed, after the call
    resolve_prev,       \* the call before the last one
    \* ---- update_include_list (InfoProvider.py 112-122) on one thread and a
    \* ---- check pass on another
    rebuild_pc,         \* where the rebuilding thread is
    rebuild_i,          \* the folder its for loop is at
    registry_before,    \* include_list when reload_skin_after_save was called
    reader_i,           \* the folder the for loop of the check pass is at
    seen,               \* what the check pass read: [folder, missing, entries]
    \* ---- check_file (InfoProvider.py 511-684) and check_labels on one file
    xml_doc,            \* the root get_root_from_file returned for the file
    file_result,        \* the call made on it: [op, raised, listitems]
    \* ---- check_busy (utils.py 100-117): calls of decorated functions on one
    \* ---- object from several threads
    is_busy,            \* self.is_busy
    busy_pc,            \* thread -> where its call of the decorator is
    busy_calls,         \* thread -> the calls it has finished
    busy_last,          \* thread -> how its last call ended
    \* ---- retry (utils.py 63-84): one call of a wrapped function
    retry_args,         \* the arguments of retry: [tries, delay, backoff]
    mtries,             \* the local mtries
    mdelay,             \* the local mdelay
    retry_calls,        \* how each invocation of f ended, in order
    retry_waits,        \* the arguments of time.sleep, in order
    retry_ret           \* "running", or what reached the caller

bracketVars == <<label, idx, stack, ret>>
diskVars == <<disk, inc_disk, font_disk>>
providerVars == <<xml_folders, window_file_list, include_list, include_file_list,
                  fonts, color_list, string_list>>
checkVars == <<diskVars, providerVars, result>>
buildVars == <<inc_unparsable, frames, outcome>>

labelVars == <<po_disk, addon_desc, addon_xml_file, builtin_list, addon_string_list,
               settings_loaded, use_native, label_result>>

resolveVars == <<resolve_result, xml_tree, resolve_prev>>

rebuildVars == <<rebuild_pc, rebuild_i, registry_before, reader_i, seen>>

fileVars == <<xml_doc, file_result>>

busyVars == <<is_busy, busy_pc, busy_calls, busy_last>>

retryVars == <<retry_args, mtries, mdelay, retry_calls, retry_waits, retry_ret>>

vars == <<bracketVars, checkVars, buildVars, labelVars, resolveVars, rebuildVars,
          fileVars, busyVars, retryVars>>

\* what the actions of one part leave alone
notBrackets == <<checkVars, buildVars, labelVars, resolveVars, rebuildVars, fileVars, busyVars, retryVars>>
notChecks == <<bracketVars, buildVars, labelVars, resolveVars, rebuildVars, fileVars, busyVars, retryVars>>
notBuild == <<bracketVars, disk, font_disk, window_file_list, fonts, color_list,
              string_list, result, labelVars, resolveVars, rebuildVars, fileVars, busyVars, retryVars>>
notLabels == <<bracketVars, checkVars, buildVars, resolveVars, rebuildVars, fileVars, busyVars, retryVars>>
notResolve == <<bracketVars, diskVars, xml_folders, window_file_list, include_file_list,
                fonts, color_list, string_list, result, buildVars, labelVars,
                rebuildVars, fileVars, busyVars, retryVars>>

\* ------------------------------------------------------------------------
\* Bounds
\* ------------------------------------------------------------------------
MaxLabelLen == 4
MaxFiles == 2
MaxLines == 1
MaxNodes == 2
MaxDepth == 4
MaxKids == 2
MaxDefs == 2
MaxResolveDepth == 3
MaxItems == 2
MaxTextLen == 3
NumThreads == 2
MaxCalls == 2
MaxTries == 4
MaxDelay == 3
MaxBackoff == 2

\* ------------------------------------------------------------------------
\* utils.check_brackets
\* ------------------------------------------------------------------------
push_chars == <<"<", "(", "{", "[">>
pop_chars == <<">", ")", "}", "]">>

\* how a Python bool is held in a variable that also holds "running"
PyBool(b) == IF b THEN "True" ELSE "False"

InSeq(c, s) == \E i \in 1..Len(s) : s[i] = c

\* str.index: the first position holding c
IndexOf(c, s) == CHOOSE i \in 1..Len(s) : s[i] = c /\ \A j \in 1..(i - 1) : s[j] # c

\* a faulty variant: every closer is taken to balance the round opener
balancing_bracket_first(c) == push_chars[2]

\* push_chars[pop_chars.index(c)]
balancing_bracket(c) == push_chars[IndexOf(c, pop_chars)]

\* characters a label is drawn from: the eight brackets and one other character
LabelAlphabet == {"<", ">", "(", ")", "{", "}", "[", "]", "A"}

LabelExamples ==
    { <<"[", "A", "]", "[", "B", "]">>,
      <<"[", "[", "]", "]">>,
      <<"[", "A", "(", "B", "]">>,
      <<"]", "[">> }

Labels == LabelExamples \cup UNION { [1..n -> LabelAlphabet] : n \in 0..MaxLabelLen }

InitBrackets ==
    /\ label \in Labels
    /\ idx = 1
    /\ stack = <<>>
    /\ ret = "running"

IdleBrackets ==
    /\ label = <<>>
    /\ idx = 1
    /\ stack = <<>>
    /\ ret = "running"

\* one iteration of `for c in label`, c an opening bracket
BracketPush ==
    /\ ret = "running"
    /\ idx <= Len(label)
    /\ InSeq(label[idx], push_chars)
    /\ stack' = Append(stack, label[idx])
    /\ idx' = idx + 1
    /\ UNCHANGED <<label, ret>>
    /\ UNCHANGED notBrackets

\* one iteration, c a closing bracket
BracketPop ==
    /\ ret = "running"
    /\ idx <= Len(label)
    /\ ~InSeq(label[idx], push_chars)
    /\ InSeq(label[idx], pop_chars)
    /\ IF stack = <<>>
       THEN /\ ret' = "False"
            /\ UNCHANGED <<stack, idx>>
       ELSE LET stack_top == stack[Len(stack)]
            IN  /\ stack' = SubSeq(stack, 1, Len(stack) - 1)
                /\ IF stack_top # balancing_bracket(label[idx])
                   THEN ret' = "False" /\ UNCHANGED idx
                   ELSE idx' = idx + 1 /\ UNCHANGED ret
    /\ UNCHANGED label
    /\ UNCHANGED notBrackets

\* one iteration, c any other character
BracketSkip ==
    /\ ret = "running"
    /\ idx <= Len(label)
    /\ ~InSeq(label[idx], push_chars)
    /\ ~InSeq(label[idx], pop_chars)
    /\ idx' = idx + 1
    /\ UNCHANGED <<label, stack, ret>>
    /\ UNCHANGED notBrackets

\* `return not stack`
BracketReturn ==
    /\ ret = "running"
    /\ idx > Len(label)
    /\ ret' = PyBool(stack = <<>>)
    /\ UNCHANGED <<label, idx, stack>>
    /\ UNCHANGED notBrackets

NextBrackets == BracketPush \/ BracketPop \/ BracketSkip \/ BracketReturn

\* ------------------------------------------------------------------------
\* The project on disk
\* ------------------------------------------------------------------------
\* the resolution folders the addon descriptor names (init_addon, 43-44)
FolderA == "720p"
FolderB == "1080i"
Folders == {FolderA, FolderB}

\* a path below the project root: os.path.join(project_path, folder, name)
Path(folder, name) == [folder |-> folder, name |-> name]

\* checkPaths returns "" when none of the paths exists
NoPath == Path("", "")

\* names of the window files of a folder, in os.listdir order
WindowNames == <<"Home.xml", "Settings.xml", "Custom1.xml", "Custom2.xml">>

\* names that definitions and references carry
Names == {"a", "b"}

\* a key a dict does not hold ("message" before a pass sets it)
NoMessage == <<>>

\* one line of a window file: the reference or definition written on it.
\*   var         $VAR[name]
\*   include     <include file="file">name</include>   (file "" : no attribute)
\*   font        <font>name</font>
\*   iddef       <control id="name">
\*   controlref  <visible>Control.IsVisible(name)</visible>
\*   windowref   <visible>Window.IsActive(name)</visible>
\*   label       <label>name</label>, name all digits
\*   onclick     <onclick>name</onclick>, name the text of the action
Item(kind, name, file) == [kind |-> kind, name |-> name, file |-> file]

Scenarios == {"variable", "include", "font", "id", "label", "value"}

ItemsOf(k) ==
    CASE k = "variable" -> { Item("var", n, "") : n \in Names }
      [] k = "include"  -> { Item("include", n, "") : n \in Names }
                             \cup { Item("include", "a", "Extra.xml") }
      [] k = "font"     -> { Item("font", n, "") : n \in Names \cup {"-"} }
      [] k = "id"       -> { Item("iddef", "5", ""), Item("controlref", "5", ""),
                             Item("controlref", "", ""), Item("windowref", "12", ""),
                             Item("windowref", "1100", "") }
      [] k = "label"    -> { Item("label", "31000", ""), Item("label", "31001", "") }
      [] k = "value"    -> { Item("onclick", "-", ""), Item("onclick", "noop", "") }

SeqsUpTo(S, n) == UNION { [1..m -> S] : m \in 0..n }

RootIdsOf(k) == IF k = "id" THEN {"", "1100"} ELSE {""}

\* a window file: whether its markup parses, the id attribute of its root
\* ("" : none) and its lines.  A file that does not parse has no root; only
\* check_variables reads its text, so its lines matter for $VAR alone.
WindowFilesOf(k) ==
    [parses : {TRUE}, root_id : RootIdsOf(k), lines : SeqsUpTo(ItemsOf(k), MaxLines)]
    \cup [parses : {FALSE}, root_id : {""},
          lines : IF k = "variable" THEN SeqsUpTo(ItemsOf(k), MaxLines) ELSE {<<>>}]

\* an element: its tag, its name and file attributes ("" : none), its text
\* ("" : none) and its child elements
Node(tag, name, file, text, kids) ==
    [tag |-> tag, name |-> name, file |-> file, text |-> text, kids |-> kids]

\* a node under <includes> without children
IncNode(tag, name, file) == Node(tag, name, file, "", <<>>)

\* markup as text: a sequence of opening tags (with attributes and the text
\* that follows) and closing tags
Tok(k, node) ==
    [k |-> k, tag |-> node.tag, name |-> node.name, file |-> node.file,
     text |-> node.text]

\* ET.tostring
RECURSIVE tostring(_)
RECURSIVE tostring_all(_, _)
tostring(node) ==
    <<Tok("open", node)>> \o tostring_all(node.kids, 1) \o <<Tok("close", node)>>

tostring_all(kids, i) ==
    IF i > Len(kids) THEN <<>> ELSE tostring(kids[i]) \o tostring_all(kids, i + 1)

\* ET.fromstring: the element that starts at tokens[pos] and the position
\* after its closing tag
RECURSIVE parse_element(_, _)
RECURSIVE parse_children(_, _)
parse_element(tokens, pos) ==
    LET c == parse_children(tokens, pos + 1)
    IN  [node |-> Node(tokens[pos].tag, tokens[pos].name, tokens[pos].file,
                       tokens[pos].text, c.kids),
         next |-> c.next + 1]

\* the elements from tokens[pos] up to the closing tag of their parent
parse_children(tokens, pos) ==
    IF tokens[pos].k = "close" THEN [kids |-> <<>>, next |-> pos]
    ELSE LET e == parse_element(tokens, pos)
             r == parse_children(tokens, e.next)
         IN  [kids |-> <<e.node>> \o r.kids, next |-> r.next]

fromstring(content) == parse_element(content, 1).node

DefTagOf(k) == IF k = "variable" THEN "variable" ELSE "include"

\* the definitions Includes.xml holds in the first and in the second folder
DefSeqsA(k) ==
    IF k \in {"variable", "include"}
    THEN { <<>>, <<IncNode(DefTagOf(k), "a", "")>>, <<IncNode(DefTagOf(k), "b", "")>>,
           <<IncNode(DefTagOf(k), "a", ""), IncNode(DefTagOf(k), "b", "")>>,
           <<IncNode(DefTagOf(k), "a", ""), IncNode(DefTagOf(k), "a", "")>> }
    ELSE { <<>> }

DefSeqsB(k) ==
    IF k \in {"variable", "include"}
    THEN { <<>>, <<IncNode(DefTagOf(k), "a", "")>> }
    ELSE { <<>> }

\* an include file a window file may name in a file attribute
ExtraIncludes == << IncNode("include", "b", ""), IncNode("variable", "b", "") >>

FontNode(name) == [name |-> name, size |-> "20", filename |-> "arial.ttf"]

\* the font-set files: a function on the folders that have one
FontDisksOf(k) ==
    IF k = "font"
    THEN UNION { [D -> { <<>>, <<FontNode("a")>>, <<FontNode("a"), FontNode("b")>> }]
                 : D \in SUBSET Folders }
    ELSE { [f \in Folders |-> <<>>] }

LabelEntry(n) == [id |-> <<"#", n>>, string |-> "text", native_string |-> "text"]

StringListsOf(k) ==
    IF k = "label" THEN { <<>>, <<LabelEntry("31000")>> } ELSE { <<>> }

ColorsFile == << [name |-> "white", content |-> "FFFFFFFF"] >>

WindowDisk(fa, fb) ==
    [p \in { Path(FolderA, WindowNames[i]) : i \in 1..Len(fa) }
           \cup { Path(FolderB, WindowNames[i]) : i \in 1..Len(fb) }
      |-> IF p.folder = FolderA
          THEN fa[CHOOSE i \in 1..Len(fa) : WindowNames[i] = p.name]
          ELSE fb[CHOOSE i \in 1..Len(fb) : WindowNames[i] = p.name]]

IncludeDisk(da, db) ==
    [p \in { Path(f, n) : f \in Folders, n \in {"Includes.xml", "Extra.xml"} }
      |-> IF p.name = "Extra.xml" THEN ExtraIncludes
          ELSE IF p.folder = FolderA THEN da ELSE db]

\* ------------------------------------------------------------------------
\* The registry builders
\* ------------------------------------------------------------------------
\* check_paths: the first path that exists, "" when none does
RECURSIVE check_paths(_, _)
check_paths(paths, existing) ==
    IF paths = <<>> THEN NoPath
    ELSE IF Head(paths) \in existing THEN Head(paths)
    ELSE check_paths(Tail(paths), existing)

\* get_tags_from_file: one registry entry per include / variable / constant node
get_tags_from_file(xml_file, nodes) ==
    [i \in 1..Len(nodes) |->
        [name |-> nodes[i].name, type |-> nodes[i].tag, file |-> xml_file,
         line |-> i, content |-> tostring(nodes[i]), message |-> NoMessage]]

SkinShortcutsFile == "script-skinshortcuts-includes.xml"

\* update_includes, on a state s = [il |-> include_list, ifl |-> include_file_list]
\* and the include files idisk; the recursion follows the file attributes
RECURSIVE update_includes(_, _, _)
RECURSIVE update_includes_nodes(_, _, _, _, _)
update_includes(s, xml_file, idisk) ==
    IF xml_file \in DOMAIN idisk
    THEN LET folder == xml_file.folder
             s1 == [il  |-> [s.il EXCEPT ![folder] =
                                @ \o get_tags_from_file(xml_file, idisk[xml_file])],
                    ifl |-> [s.ifl EXCEPT ![folder] = Append(@, xml_file)]]
         IN  update_includes_nodes(s1, folder, idisk[xml_file], 1, idisk)
    ELSE s

\* the loop `for node in root.findall("include")` from its i-th node on
update_includes_nodes(s, folder, nodes, i, idisk) ==
    IF i > Len(nodes) THEN s
    ELSE IF /\ nodes[i].tag = "include"
            /\ nodes[i].file # ""
            /\ nodes[i].file # SkinShortcutsFile
         THEN update_includes_nodes(
                  update_includes(s, Path(folder, nodes[i].file), idisk),
                  folder, nodes, i + 1, idisk)
         ELSE update_includes_nodes(s, folder, nodes, i + 1, idisk)

\* update_include_list from its i-th folder on
RECURSIVE update_include_list_from(_, _, _, _)
update_include_list_from(s, folders, i, idisk) ==
    IF i > Len(folders) THEN s
    ELSE LET folder == folders[i]
             paths == << Path(folder, "Includes.xml"), Path(folder, "includes.xml") >>
             s0 == [il  |-> [g \in DOMAIN s.il \cup {folder} |-> IF g = folder THEN <<>> ELSE s.il[g]],
                    ifl |-> [g \in DOMAIN s.ifl \cup {folder} |-> IF g = folder THEN <<>> ELSE s.ifl[g]]]
             include_file == check_paths(paths, DOMAIN idisk)
         IN  update_include_list_from(update_includes(s0, include_file, idisk),
                                      folders, i + 1, idisk)

\* update_include_list: include_list starts empty, include_file_list is kept
update_include_list(ifl, folders, idisk) ==
    update_include_list_from([il |-> <<>>, ifl |-> ifl], folders, 1, idisk)

\* get_fonts: an entry only for the folders that have a font-set file
get_fonts(folders, fdisk) ==
    [f \in { folders[i] : i \in 1..Len(folders) } \cap DOMAIN fdisk |->
        [i \in 1..Len(fdisk[f]) |->
            [name |-> fdisk[f][i].name, size |-> fdisk[f][i].size, line |-> i,
             file |-> Path(f, "Font.xml"), filename |-> fdisk[f][i].filename,
             message |-> NoMessage]]]

\* get_colors, on the one colors file of the project
get_colors(nodes) ==
    [i \in 1..Len(nodes) |->
        [name |-> nodes[i].name, line |-> i, content |-> nodes[i].content,
         filename |-> Path("colors", "defaults.xml")]]

\* update_xml_files: the window files found in each folder
get_xml_file_paths(folder, wdisk) ==
    SelectSeq(WindowNames, LAMBDA n : Path(folder, n) \in DOMAIN wdisk)

update_xml_files(folders, wdisk) ==
    [f \in { folders[i] : i \in 1..Len(folders) } |-> get_xml_file_paths(f, wdisk)]

\* a loaded project: the fields init_addon and update_xml_files leave
InitChecks ==
    \E k \in Scenarios :
      \E fa \in SeqsUpTo(WindowFilesOf(k), MaxFiles),
         fb \in SeqsUpTo(WindowFilesOf(k), MaxFiles - 1),
         da \in DefSeqsA(k), db \in DefSeqsB(k),
         fd \in FontDisksOf(k), sl \in StringListsOf(k) :
        LET built == update_include_list(<<>>, <<FolderA, FolderB>>, IncludeDisk(da, db))
        IN  /\ disk = WindowDisk(fa, fb)
            /\ inc_disk = IncludeDisk(da, db)
            /\ font_disk = fd
            /\ xml_folders = <<FolderA, FolderB>>
            /\ window_file_list = update_xml_files(xml_folders, disk)
            /\ include_list = built.il
            /\ include_file_list = built.ifl
            /\ fonts = get_fonts(xml_folders, fd)
            /\ color_list = get_colors(ColorsFile)
            /\ string_list = sl
            /\ result = [op |-> "none", raised |-> "", listitems |-> <<>>]

IdleChecks ==
    /\ disk = <<>>
    /\ inc_disk = <<>>
    /\ font_disk = <<>>
    /\ xml_folders = <<>>
    /\ window_file_list = <<>>
    /\ include_list = <<>>
    /\ include_file_list = <<>>
    /\ fonts = <<>>
    /\ color_list = <<>>
    /\ string_list = <<>>
    /\ result = [op |-> "none", raised |-> "", listitems |-> <<>>]

\* ------------------------------------------------------------------------
\* The reference scanner
\* ------------------------------------------------------------------------
\* a reference record as the passes build it; "message" is set on report
Ref(line, type, file, name) ==
    [line |-> line, type |-> type, file |-> file, name |-> name, message |-> NoMessage]

\* the references of one kind on the lines of a file, in line order
RefsOfKind(path, lines, kind, type) ==
    LET R[i \in 0..Len(lines)] ==
            IF i = 0 THEN <<>>
            ELSE IF lines[i].kind = kind
                 THEN Append(R[i - 1], Ref(i, type, path, lines[i].name))
                 ELSE R[i - 1]
    IN  R[Len(lines)]

\* get_root_from_file returns None for markup that does not parse
RootIsNone(path, wdisk) == ~wdisk[path].parses

\* check_variables 241-248: the $VAR[...] matches on the text lines of a file
VarRefsOfFile(path, wdisk) == RefsOfKind(path, wdisk[path].lines, "var", "variable")

\* check_includes 271-289: the include nodes of a file that parses
IncludeRefsOfFile(path, wdisk) ==
    IF RootIsNone(path, wdisk) THEN <<>>
    ELSE RefsOfKind(path, wdisk[path].lines, "include", "include")

\* get_refs_from_file(path, ".//font"): the font nodes of a file that parses
get_refs_from_file(path, wdisk) ==
    IF RootIsNone(path, wdisk) THEN <<>>
    ELSE RefsOfKind(path, wdisk[path].lines, "font", "font")

\* check_labels 454-463: the all-digit label texts of a file that parses
LabelRefsOfFile(path, wdisk) ==
    IF RootIsNone(path, wdisk) THEN <<>>
    ELSE RefsOfKind(path, wdisk[path].lines, "label", "label")

\* the concatenation, over the window files of a folder, of FileRefs(path)
FolderRefs(folder, wfl, FileRefs(_)) ==
    LET names == wfl[folder]
        C[j \in 0..Len(names)] ==
            IF j = 0 THEN <<>> ELSE C[j - 1] \o FileRefs(Path(folder, names[j]))
    IN  C[Len(names)]

NamesIn(refs) == { refs[i].name : i \in 1..Len(refs) }

\* the records of seq, each with its message set
WithMessage(seq, text) ==
    [i \in 1..Len(seq) |-> [seq[i] EXCEPT !.message = <<text, seq[i].name>>]]

\* ------------------------------------------------------------------------
\* check_variables
\* ------------------------------------------------------------------------
\* the for/else of 250-255: no registry node of the type carries the name
NotDefined(il_f, type, ref) ==
    ~\E i \in 1..Len(il_f) : il_f[i].type = type /\ il_f[i].name = ref.name

\* 258 / 301: a node of the type whose name no reference carries
IsUnused(node, type, ref_list) == node.type = type /\ node.name \notin ref_list

\* the registry of a folder after the unused nodes got their message (259-260)
MarkUnused(il_f, type, ref_list, text) ==
    [i \in 1..Len(il_f) |->
        IF IsUnused(il_f[i], type, ref_list)
        THEN [il_f[i] EXCEPT !.message = <<text, il_f[i].name>>]
        ELSE il_f[i]]

\* one folder of check_variables: acc = [il, listitems]
check_variables_folder(acc, folder, wfl, wdisk) ==
    LET var_refs == FolderRefs(folder, wfl, LAMBDA p : VarRefsOfFile(p, wdisk))
        il_f == acc.il[folder]
        undefined == SelectSeq(var_refs, LAMBDA ref : NotDefined(il_f, "variable", ref))
        ref_list == NamesIn(var_refs)
        marked == MarkUnused(il_f, "variable", ref_list, "Unused variable")
        unused == SelectSeq(marked, LAMBDA node : IsUnused(node, "variable", ref_list))
    IN  [il |-> [acc.il EXCEPT ![folder] = marked],
         listitems |-> acc.listitems
                       \o WithMessage(undefined, "Variable not defined") \o unused]

RECURSIVE check_variables_from(_, _, _, _, _)
check_variables_from(acc, folders, i, wfl, wdisk) ==
    IF i > Len(folders) THEN acc
    ELSE check_variables_from(check_variables_folder(acc, folders[i], wfl, wdisk),
                              folders, i + 1, wfl, wdisk)

CheckVariables ==
    LET out == check_variables_from([il |-> include_list, listitems |-> <<>>],
                                    xml_folders, 1, window_file_list, disk)
    IN  /\ include_list' = out.il
        /\ result' = [op |-> "check_variables", raised |-> "", listitems |-> out.listitems]
        /\ UNCHANGED <<diskVars, xml_folders, window_file_list, include_file_list,
                       fonts, color_list, string_list>>
        /\ UNCHANGED notChecks

\* ------------------------------------------------------------------------
\* check_includes
\* ------------------------------------------------------------------------
\* 277-280: the include files named by file attributes are loaded while the
\* references are collected; s = [il, ifl]
RECURSIVE load_named_files(_, _, _, _, _)
load_named_files(s, folder, lines, i, idisk) ==
    IF i > Len(lines) THEN s
    ELSE IF /\ lines[i].kind = "include"
            /\ lines[i].file # ""
            /\ ~InSeq(Path(folder, lines[i].file), s.ifl[folder])
         THEN load_named_files(update_includes(s, Path(folder, lines[i].file), idisk),
                               folder, lines, i + 1, idisk)
         ELSE load_named_files(s, folder, lines, i + 1, idisk)

RECURSIVE load_named_files_of_folder(_, _, _, _, _, _)
load_named_files_of_folder(s, folder, names, j, wdisk, idisk) ==
    IF j > Len(names) THEN s
    ELSE LET path == Path(folder, names[j])
             s1 == IF RootIsNone(path, wdisk) THEN s
                   ELSE load_named_files(s, folder, wdisk[path].lines, 1, idisk)
         IN  load_named_files_of_folder(s1, folder, names, j + 1, wdisk, idisk)

\* one folder of check_includes: acc = [il, ifl, listitems]
check_includes_folder(acc, folder, wfl, wdisk, idisk) ==
    LET var_refs == FolderRefs(folder, wfl, LAMBDA p : IncludeRefsOfFile(p, wdisk))
        s == load_named_files_of_folder([il |-> acc.il, ifl |-> acc.ifl], folder,
                                        wfl[folder], 1, wdisk, idisk)
        il_f == s.il[folder]
        undefined == SelectSeq(var_refs, LAMBDA ref : NotDefined(il_f, "include", ref))
        ref_list == NamesIn(var_refs)
        marked == MarkUnused(il_f, "include", ref_list, "Unused include")
        unused == SelectSeq(marked, LAMBDA node : IsUnused(node, "include", ref_list))
    IN  [il |-> [s.il EXCEPT ![folder] = marked],
         ifl |-> s.ifl,
         listitems |-> acc.listitems
                       \o WithMessage(undefined, "Include not defined") \o unused]

RECURSIVE check_includes_from(_, _, _, _, _, _)
check_includes_from(acc, folders, i, wfl, wdisk, idisk) ==
    IF i > Len(folders) THEN acc
    ELSE check_includes_from(check_includes_folder(acc, folders[i], wfl, wdisk, idisk),
                             folders, i + 1, wfl, wdisk, idisk)

CheckIncludes ==
    LET out == check_includes_from(
                   [il |-> include_list, ifl |-> include_file_list, listitems |-> <<>>],
                   xml_folders, 1, window_file_list, disk, inc_disk)
    IN  /\ include_list' = out.il
        /\ include_file_list' = out.ifl
        /\ result' = [op |-> "check_includes", raised |-> "", listitems |-> out.listitems]
        /\ UNCHANGED <<diskVars, xml_folders, window_file_list,
                       fonts, color_list, string_list>>
        /\ UNCHANGED notChecks

\* ------------------------------------------------------------------------
\* check_fonts
\* ------------------------------------------------------------------------
\* get_font_refs: the font references of every folder, collected first
get_font_refs(folders, wfl, wdisk) ==
    [f \in { folders[i] : i \in 1..Len(folders) } |->
        FolderRefs(f, wfl, LAMBDA p : get_refs_from_file(p, wdisk))]

\* self.fonts[folder] (321, 330): a dict lookup, KeyError on a missing key
FontsOfFolder(fnts, folder) ==
    IF folder \in DOMAIN fnts THEN [raised |-> "", list |-> fnts[folder]]
    ELSE [raised |-> "KeyError", list |-> <<>>]

\* 319-322: "-" and the names of the folder's font set
FontList(fonts_f) == {"-"} \cup { fonts_f[i].name : i \in 1..Len(fonts_f) }

\* one folder of check_fonts: acc = [fonts, listitems, raised]
check_fonts_folder(acc, folder, font_refs) ==
    LET looked == FontsOfFolder(acc.fonts, folder)
        fonts_f == looked.list
        fontlist == FontList(fonts_f)
        undefined == SelectSeq(font_refs[folder], LAMBDA ref : ref.name \notin fontlist)
        ref_list == NamesIn(font_refs[folder])
        marked == [i \in 1..Len(fonts_f) |->
                      IF fonts_f[i].name \notin ref_list
                      THEN [fonts_f[i] EXCEPT !.message = <<"Unused font", fonts_f[i].name>>]
                      ELSE fonts_f[i]]
        unused == SelectSeq(marked, LAMBDA node : node.name \notin ref_list)
    IN  IF looked.raised # ""
        THEN [acc EXCEPT !.raised = looked.raised]
        ELSE [fonts |-> [acc.fonts EXCEPT ![folder] = marked],
              listitems |-> acc.listitems
                            \o WithMessage(undefined, "Font not defined") \o unused,
              raised |-> ""]

RECURSIVE check_fonts_from(_, _, _, _)
check_fonts_from(acc, folders, i, font_refs) ==
    IF i > Len(folders) \/ acc.raised # "" THEN acc
    ELSE check_fonts_from(check_fonts_folder(acc, folders[i], font_refs),
                          folders, i + 1, font_refs)

\* what the caller of a pass gets: the list, or nothing when the pass raised
Returned(out) == IF out.raised # "" THEN <<>> ELSE out.listitems

CheckFonts ==
    LET font_refs == get_font_refs(xml_folders, window_file_list, disk)
        out == check_fonts_from([fonts |-> fonts, listitems |-> <<>>, raised |-> ""],
                                xml_folders, 1, font_refs)
    IN  /\ fonts' = out.fonts
        /\ result' = [op |-> "check_fonts", raised |-> out.raised,
                      listitems |-> Returned(out)]
        /\ UNCHANGED <<diskVars, xml_folders, window_file_list, include_list,
                       include_file_list, color_list, string_list>>
        /\ UNCHANGED notChecks

\* ------------------------------------------------------------------------
\* check_ids
\* ------------------------------------------------------------------------
builtin_window_ids ==
    { 0, 1, 2, 3, 4, 5, 6, 7, 11, 12, 13, 14, 15, 16, 17,
      18, 19, 20, 21, 25, 28, 29, 34, 40, 100, 101, 103,
      104, 106, 107, 109, 111, 113, 114, 115, 120, 122, 123,
      124, 125, 126, 128, 129, 130, 131, 132, 134, 135, 136,
      137, 138, 139, 140, 141, 142, 143, 144, 145, 146, 147,
      149, 150, 151, 152, 153, 500, 501, 502, 503, 615, 616,
      617, 618, 619, 620, 621, 622, 623, 624, 602, 603, 604,
      605, 606, 607, 610, 611, 2000, 2001, 2002, 2003, 2005,
      2006, 2007, 2008, 2009, 2600, 2900, 2901, 2902, 2999 }

\* int(), on the numerals the window files of the model hold
PyInt(s) ==
    CASE s = "5" -> 5
      [] s = "12" -> 12
      [] s = "1100" -> 1100

\* 355-398, one window file: acc = [window_ids, defines, control_refs,
\* window_refs, raised]; root.attrib on None raises AttributeError
check_ids_file(acc, path, wdisk) ==
    IF RootIsNone(path, wdisk) THEN [acc EXCEPT !.raised = "AttributeError"]
    ELSE LET f == wdisk[path]
         IN  [window_ids   |-> IF f.root_id # "" THEN acc.window_ids \cup {f.root_id}
                               ELSE acc.window_ids,
              defines      |-> acc.defines \o RefsOfKind(path, f.lines, "iddef", "control"),
              control_refs |-> acc.control_refs
                               \o RefsOfKind(path, f.lines, "controlref", "visible"),
              window_refs  |-> acc.window_refs
                               \o RefsOfKind(path, f.lines, "windowref", "visible"),
              raised       |-> ""]

RECURSIVE check_ids_files(_, _, _, _, _)
check_ids_files(acc, folder, names, j, wdisk) ==
    IF j > Len(names) \/ acc.raised # "" THEN acc
    ELSE check_ids_files(check_ids_file(acc, Path(folder, names[j]), wdisk),
                         folder, names, j + 1, wdisk)

\* 401-408
WindowIdUndefined(item, window_ids) ==
    /\ item.name \notin window_ids
    /\ PyInt(item.name) \notin builtin_window_ids

\* 409-414
ControlIdUndefined(item, define_list) ==
    ~(item.name = "" \/ item.name \in define_list)

\* one folder of check_ids: acc = [listitems, raised]
check_ids_folder(acc, folder, wfl, wdisk) ==
    LET scan == check_ids_files([window_ids |-> {}, defines |-> <<>>,
                                 control_refs |-> <<>>, window_refs |-> <<>>,
                                 raised |-> ""],
                                folder, wfl[folder], 1, wdisk)
        define_list == NamesIn(scan.defines)
        windows == SelectSeq(scan.window_refs,
                             LAMBDA item : WindowIdUndefined(item, scan.window_ids))
        controls == SelectSeq(scan.control_refs,
                              LAMBDA item : ControlIdUndefined(item, define_list))
    IN  IF scan.raised # ""
        THEN [acc EXCEPT !.raised = scan.raised]
        ELSE [listitems |-> acc.listitems
                            \o WithMessage(windows, "Window ID not defined")
                            \o WithMessage(controls, "Control / Item ID not defined"),
              raised |-> ""]

RECURSIVE check_ids_from(_, _, _, _, _)
check_ids_from(acc, folders, i, wfl, wdisk) ==
    IF i > Len(folders) \/ acc.raised # "" THEN acc
    ELSE check_ids_from(check_ids_folder(acc, folders[i], wfl, wdisk),
                        folders, i + 1, wfl, wdisk)

CheckIds ==
    LET out == check_ids_from([listitems |-> <<>>, raised |-> ""],
                              xml_folders, 1, window_file_list, disk)
    IN  /\ result' = [op |-> "check_ids", raised |-> out.raised,
                      listitems |-> Returned(out)]
        /\ UNCHANGED <<diskVars, providerVars>>
        /\ UNCHANGED notChecks

\* ------------------------------------------------------------------------
\* check_labels
\* ------------------------------------------------------------------------
\* 447-463: the label references of every folder, in folder and file order
RECURSIVE label_refs_from(_, _, _, _)
label_refs_from(folders, i, wfl, wdisk) ==
    IF i > Len(folders) THEN <<>>
    ELSE FolderRefs(folders[i], wfl, LAMBDA p : LabelRefsOfFile(p, wdisk))
         \o label_refs_from(folders, i + 1, wfl, wdisk)

\* 495-499: "#" + name is no id of the merged catalog
LabelUndefined(ref, sl) ==
    <<"#", ref.name>> \notin { sl[i].id : i \in 1..Len(sl) }

check_labels(folders, wfl, wdisk, sl) ==
    LET refs == label_refs_from(folders, 1, wfl, wdisk)
    IN  WithMessage(SelectSeq(refs, LAMBDA ref : LabelUndefined(ref, sl)),
                    "Label not defined")

CheckLabels ==
    /\ result' = [op |-> "check_labels", raised |-> "",
                  listitems |-> check_labels(xml_folders, window_file_list, disk,
                                             string_list)]
    /\ UNCHANGED <<diskVars, providerVars>>
    /\ UNCHANGED notChecks

\* ------------------------------------------------------------------------
\* check_values
\* ------------------------------------------------------------------------
\* check_file 582-586 and 641-650: no items for a file without a tree, else
\* one item per action tag whose text is "-" or empty.  The window files of
\* this specification hold no node the other rule tables of check_file match.
check_file(path, wdisk) ==
    IF RootIsNone(path, wdisk) THEN <<>>
    ELSE LET lines == wdisk[path].lines
             R[i \in 0..Len(lines)] ==
                 IF i = 0 THEN <<>>
                 ELSE IF lines[i].kind = "onclick" /\ lines[i].name \in {"-", ""}
                      THEN Append(R[i - 1],
                                  [line |-> i, type |-> "onclick", filename |-> path.name,
                                   message |-> <<"Use 'noop' for empty calls", "onclick">>,
                                   file |-> path])
                      ELSE R[i - 1]
         IN  R[Len(lines)]

\* check_values 504-508
RECURSIVE check_values_from(_, _, _, _)
check_values_from(folders, i, wfl, wdisk) ==
    IF i > Len(folders) THEN <<>>
    ELSE FolderRefs(folders[i], wfl, LAMBDA p : check_file(p, wdisk))
         \o check_values_from(folders, i + 1, wfl, wdisk)

CheckValues ==
    /\ result' = [op |-> "check_values", raised |-> "",
                  listitems |-> check_values_from(xml_folders, 1, window_file_list, disk)]
    /\ UNCHANGED <<diskVars, providerVars>>
    /\ UNCHANGED notChecks

NextChecks ==
    \/ CheckVariables
    \/ CheckIncludes
    \/ CheckFonts
    \/ CheckIds
    \/ CheckLabels
    \/ CheckValues


\* ------------------------------------------------------------------------
\* update_includes, statement by statement
\* ------------------------------------------------------------------------
\* the include files one folder may hold, and what a file attribute may name
IncludeFileNames == {"Includes.xml", "A.xml", "B.xml"}

FileAttrs == {"", SkinShortcutsFile} \cup IncludeFileNames

\* the nodes under <includes> of an include file that parses
BuildNodeSeqs(n) == SeqsUpTo({ IncNode("include", "a", t) : t \in FileAttrs }, n)

\* what one include file is on disk
FileStates(n) ==
    [state : {"absent", "unparsable"}, nodes : {<<>>}]
    \cup [state : {"parsed"}, nodes : BuildNodeSeqs(n)]

\* the include files of FolderA
BuildDisks ==
    { d \in [IncludeFileNames -> FileStates(MaxNodes)] :
        d["B.xml"] \in FileStates(MaxNodes - 1) }

\* os.path.exists
Exists(xml_file) == xml_file \in DOMAIN inc_disk \cup inc_unparsable

\* update_include_list (113-121) for the one folder, up to the call of
\* update_includes on the file check_paths found
InitBuild ==
    \E d \in BuildDisks :
        LET parsed == { n \in IncludeFileNames : d[n].state = "parsed" }
            paths == << Path(FolderA, "Includes.xml"), Path(FolderA, "includes.xml") >>
        IN  /\ inc_disk = [p \in { Path(FolderA, n) : n \in parsed } |-> d[p.name].nodes]
            /\ inc_unparsable = { Path(FolderA, n) : n \in { m \in IncludeFileNames :
                                                                d[m].state = "unparsable" } }
            /\ xml_folders = <<FolderA>>
            /\ include_list = [f \in {FolderA} |-> <<>>]
            /\ include_file_list = [f \in {FolderA} |-> <<>>]
            /\ frames = << [xml_file |-> check_paths(paths, DOMAIN inc_disk \cup inc_unparsable),
                            i |-> 0] >>
            /\ outcome = "running"
            /\ disk = <<>>
            /\ font_disk = <<>>
            /\ window_file_list = <<>>
            /\ fonts = <<>>
            /\ color_list = <<>>
            /\ string_list = <<>>
            /\ result = [op |-> "none", raised |-> "", listitems |-> <<>>]

IdleBuild ==
    /\ inc_unparsable = {}
    /\ frames = <<>>
    /\ outcome = "running"

\* the call on top of the stack, and the stack once it has returned
Top == frames[Len(frames)]

Returned_frames == SubSeq(frames, 1, Len(frames) - 1)

\* the for loop of the caller goes on; the outermost call returns to
\* update_include_list
PopFrame ==
    /\ frames' = Returned_frames
    /\ outcome' = IF Len(frames) = 1 THEN "returned" ELSE "running"

\* 126, 136-137: the file does not exist, the call logs and returns
IncludeMissing ==
    /\ outcome = "running"
    /\ frames # <<>>
    /\ Top.i = 0
    /\ ~Exists(Top.xml_file)
    /\ PopFrame
    /\ UNCHANGED <<include_list, include_file_list>>
    /\ UNCHANGED <<inc_disk, inc_unparsable, xml_folders, notBuild>>

\* 127-132: the file is recorded, its tags are appended, its root is parsed
IncludeRead ==
    /\ outcome = "running"
    /\ frames # <<>>
    /\ Top.i = 0
    /\ Top.xml_file \in DOMAIN inc_disk
    /\ LET folder == Top.xml_file.folder
       IN  /\ include_file_list' = [include_file_list EXCEPT ![folder] =
                                       Append(@, Top.xml_file)]
           /\ include_list' = [include_list EXCEPT ![folder] =
                                  @ \o get_tags_from_file(Top.xml_file,
                                                          inc_disk[Top.xml_file])]
    /\ frames' = [frames EXCEPT ![Len(frames)].i = 1]
    /\ UNCHANGED outcome
    /\ UNCHANGED <<inc_disk, inc_unparsable, xml_folders, notBuild>>

\* 127-132 on a file that exists and does not parse: get_root_from_file
\* returns None and root.findall raises AttributeError through every caller
IncludeRaise ==
    /\ outcome = "running"
    /\ frames # <<>>
    /\ Top.i = 0
    /\ Top.xml_file \in inc_unparsable
    /\ include_file_list' = [include_file_list EXCEPT ![Top.xml_file.folder] =
                                Append(@, Top.xml_file)]
    /\ frames' = <<>>
    /\ outcome' = "AttributeError"
    /\ UNCHANGED include_list
    /\ UNCHANGED <<inc_disk, inc_unparsable, xml_folders, notBuild>>

\* the node the for loop of the top call is at
TopNode == inc_disk[Top.xml_file][Top.i]

FollowsFile(node) ==
    /\ node.tag = "include"
    /\ node.file # ""
    /\ node.file # SkinShortcutsFile

\* 132-135: the node names a file, update_includes calls itself on it.  The
\* recursion has no bound of its own; a depth of MaxDepth frames stands for it
\* (CPython ends it with RecursionError at its recursion limit).
IncludeRecurse ==
    /\ outcome = "running"
    /\ frames # <<>>
    /\ Top.i >= 1
    /\ Top.i <= Len(inc_disk[Top.xml_file])
    /\ FollowsFile(TopNode)
    /\ LET folder == Top.xml_file.folder
           xml_file == Path(folder, TopNode.file)
       IN  IF Len(frames) >= MaxDepth
           THEN /\ outcome' = "unbounded"
                /\ UNCHANGED frames
           ELSE /\ frames' = Append([frames EXCEPT ![Len(frames)].i = @ + 1],
                                    [xml_file |-> xml_file, i |-> 0])
                /\ UNCHANGED outcome
    /\ UNCHANGED <<include_list, include_file_list>>
    /\ UNCHANGED <<inc_disk, inc_unparsable, xml_folders, notBuild>>

\* 133: an include node without a file attribute, or naming the skin
\* shortcuts file, is passed over
IncludeSkip ==
    /\ outcome = "running"
    /\ frames # <<>>
    /\ Top.i >= 1
    /\ Top.i <= Len(inc_disk[Top.xml_file])
    /\ ~FollowsFile(TopNode)
    /\ frames' = [frames EXCEPT ![Len(frames)].i = @ + 1]
    /\ UNCHANGED outcome
    /\ UNCHANGED <<include_list, include_file_list>>
    /\ UNCHANGED <<inc_disk, inc_unparsable, xml_folders, notBuild>>

\* the for loop is over, the call returns
IncludeReturn ==
    /\ outcome = "running"
    /\ frames # <<>>
    /\ Top.i >= 1
    /\ Top.i > Len(inc_disk[Top.xml_file])
    /\ PopFrame
    /\ UNCHANGED <<include_list, include_file_list>>
    /\ UNCHANGED <<inc_disk, inc_unparsable, xml_folders, notBuild>>

NextBuild ==
    \/ IncludeMissing
    \/ IncludeRead
    \/ IncludeRaise
    \/ IncludeRecurse
    \/ IncludeSkip
    \/ IncludeReturn

\* ------------------------------------------------------------------------
\* The label catalogs
\* ------------------------------------------------------------------------
\* text is held as a sequence of one-character strings, so that "#" + selection
\* and str.isdigit work on characters
Digits == {"0", "1", "2", "3", "4", "5", "6", "7", "8", "9"}

isdigit(s) == Len(s) > 0 /\ \A i \in 1..Len(s) : s[i] \in Digits

\* one entry of a strings.po file
PoEntry(msgctxt, msgid, msgstr) == [msgctxt |-> msgctxt, msgid |-> msgid, msgstr |-> msgstr]

\* the candidate places of the two catalogs, in the order of the paths lists
KodiLangPaths == << "kodi/addons/resource.language.en_gb/resources/strings.po",
                    "kodi/language/English/strings.po" >>

AddonLangPaths == << "project/resources/language/English/strings.po",
                     "project/language/English/strings.po" >>

PoPaths == { KodiLangPaths[1], KodiLangPaths[2], AddonLangPaths[1], AddonLangPaths[2] }

\* what each catalog file holds when it exists
PoFile(path) ==
    CASE path = KodiLangPaths[1] ->
           << PoEntry(<<"#", "1">>, <<"E", "1">>, <<"e", "1">>),
              PoEntry(<<"#", "2">>, <<"E", "2">>, <<"e", "2">>),
              PoEntry(<<"#", "1">>, <<"E", "3">>, <<"e", "3">>) >>
      [] path = KodiLangPaths[2] ->
           << PoEntry(<<"#", "2">>, <<"O", "2">>, <<"o", "2">>) >>
      [] path = AddonLangPaths[1] ->
           << PoEntry(<<"#", "7">>, <<"P", "7">>, <<"p", "7">>),
              PoEntry(<<"#", "1">>, <<"P", "1">>, <<"p", "1">>) >>
      [] path = AddonLangPaths[2] ->
           << PoEntry(<<"#", "2">>, <<"Q", "2">>, <<"q", "2">>) >>

\* the catalog files on disk: a function on the paths that exist
PoDisks == { [p \in D |-> PoFile(p)] : D \in SUBSET PoPaths }

\* what addon.xml is: absent, not well-formed, a skin with two res folders, or
\* a script (import of xbmc.python) without a skin folder on disk
AddonDescriptors == {"absent", "unparsable", "skin", "python", "python_skin"}

\* 48-49: the two conventional default-skin paths of a scriptable addon
SkinPaths == << "project/resources/skins/Default/720p",
               "project/resources/skins/Default/1080i" >>

\* the default-skin paths that exist: none for "python", the second one for
\* "python_skin"
SkinPathsFound(desc) == IF desc = "python_skin" THEN { SkinPaths[2] } ELSE {}

\* checkPaths on string paths: the first that exists, "" when none does
RECURSIVE checkPaths(_, _)
checkPaths(paths, existing) ==
    IF paths = <<>> THEN ""
    ELSE IF Head(paths) \in existing THEN Head(paths)
    ELSE checkPaths(Tail(paths), existing)

\* get_label_list: one entry per entry of the po file
get_label_list(po_file) ==
    [i \in 1..Len(po_file) |->
        [id |-> po_file[i].msgctxt, string |-> po_file[i].msgid,
         native_string |-> po_file[i].msgstr, line |-> i]]

\* a faulty variant: the project catalog is put first
merged_labels_project_first(builtin, addon) == addon \o builtin

\* self.builtin_list + self.addon_string_list (232)
merged_labels(builtin, addon) == builtin \o addon

\* update_labels on the fields it reads; what it raises, returns and leaves
update_labels(axf, loaded, builtin, addon, strings, pdisk) ==
    IF axf = ""
    THEN [raised |-> "", ret |-> "False", addon_string_list |-> addon,
          string_list |-> strings]
    ELSE IF ~loaded
    THEN [raised |-> "AttributeError", ret |-> "", addon_string_list |-> addon,
          string_list |-> strings]
    ELSE LET addon_lang_path == checkPaths(AddonLangPaths, DOMAIN pdisk)
             loaded_list == IF addon_lang_path # ""
                            THEN get_label_list(pdisk[addon_lang_path])
                            ELSE <<>>
         IN  [raised |-> "", ret |-> "None", addon_string_list |-> loaded_list,
              string_list |-> merged_labels(builtin, loaded_list)]

\* the for loop of return_label from the i-th entry on; "" is <<>>
RECURSIVE return_label_from(_, _, _, _)
return_label_from(strings, id_string, i, native) ==
    IF i > Len(strings) THEN <<>>
    ELSE IF id_string = strings[i].id
    THEN IF native
         THEN strings[i].string \o <<"<", "b", "r", ">">> \o strings[i].native_string
         ELSE strings[i].string
    ELSE return_label_from(strings, id_string, i + 1, native)

return_label(selection, strings, native) ==
    IF isdigit(selection)
    THEN return_label_from(strings, <<"#">> \o selection, 1, native)
    ELSE <<>>

\* whether the loop of return_label reaches `if self.use_native`
label_match(selection, strings) ==
    /\ isdigit(selection)
    /\ \E i \in 1..Len(strings) : strings[i].id = <<"#">> \o selection

Selections == { <<>>, <<"1">>, <<"2">>, <<"7">>, <<"9">>, <<"1", "a">> }

LabelResult(op, sel, out, raised) == [op |-> op, sel |-> sel, out |-> out, raised |-> raised]

\* the provider after __init__ (10-26), and the files around it
InitLabels ==
    /\ po_disk \in PoDisks
    /\ addon_desc \in AddonDescriptors
    /\ addon_xml_file = ""
    /\ builtin_list = <<>>
    /\ addon_string_list = <<>>
    /\ settings_loaded = FALSE
    /\ use_native = FALSE
    /\ label_result = LabelResult("none", <<>>, <<>>, "")
    /\ disk = <<>>
    /\ inc_disk = IncludeDisk(<<IncNode("variable", "a", "")>>, <<>>)
    /\ font_disk = [f \in {FolderA} |-> <<FontNode("a")>>]
    /\ xml_folders = <<>>
    /\ window_file_list = <<>>
    /\ include_list = <<>>
    /\ include_file_list = <<>>
    /\ fonts = <<>>
    /\ color_list = <<>>
    /\ string_list = <<>>
    /\ result = [op |-> "none", raised |-> "", listitems |-> <<>>]

IdleLabels ==
    /\ po_disk = <<>>
    /\ addon_desc = "absent"
    /\ addon_xml_file = ""
    /\ builtin_list = <<>>
    /\ addon_string_list = <<>>
    /\ settings_loaded = FALSE
    /\ use_native = FALSE
    /\ label_result = LabelResult("none", <<>>, <<>>, "")

\* get_settings (196-206): kodi_path, use_native and language_folder are set
GetSettings ==
    /\ \E native \in BOOLEAN : use_native' = native
    /\ settings_loaded' = TRUE
    /\ label_result' = LabelResult("get_settings", <<>>, <<>>, "")
    /\ UNCHANGED <<po_disk, addon_desc, addon_xml_file, builtin_list, addon_string_list>>
    /\ UNCHANGED notLabels

\* get_builtin_label (208-218); self.kodi_path is not set before get_settings
GetBuiltinLabel ==
    /\ IF ~settings_loaded
       THEN /\ label_result' = LabelResult("get_builtin_label", <<>>, <<>>, "AttributeError")
            /\ UNCHANGED builtin_list
       ELSE LET kodi_lang_path == checkPaths(KodiLangPaths, DOMAIN po_disk)
            IN  /\ builtin_list' = IF kodi_lang_path # ""
                                   THEN get_label_list(po_disk[kodi_lang_path])
                                   ELSE <<>>
                /\ label_result' = LabelResult("get_builtin_label", <<>>, <<>>, "")
    /\ UNCHANGED <<po_disk, addon_desc, addon_xml_file, addon_string_list,
                   settings_loaded, use_native>>
    /\ UNCHANGED notLabels

\* update_labels (220-232)
UpdateLabels ==
    /\ LET ul == update_labels(addon_xml_file, settings_loaded, builtin_list,
                               addon_string_list, string_list, po_disk)
       IN  /\ addon_string_list' = ul.addon_string_list
           /\ string_list' = ul.string_list
           /\ label_result' = LabelResult("update_labels", <<>>, <<>>, ul.raised)
    /\ UNCHANGED <<po_disk, addon_desc, addon_xml_file, builtin_list,
                   settings_loaded, use_native>>
    /\ UNCHANGED <<bracketVars, buildVars, diskVars, xml_folders, window_file_list,
                   include_list, include_file_list, fonts, color_list, result,
                   resolveVars, rebuildVars, fileVars, busyVars, retryVars>>

\* return_label (185-194); self.use_native is not set before get_settings
ReturnLabel ==
    /\ \E selection \in Selections :
         IF label_match(selection, string_list) /\ ~settings_loaded
         THEN label_result' = LabelResult("return_label", selection, <<>>,
                                          "AttributeError")
         ELSE label_result' = LabelResult("return_label", selection,
                                  return_label(selection, string_list, use_native), "")
    /\ UNCHANGED <<po_disk, addon_desc, addon_xml_file, builtin_list, addon_string_list,
                   settings_loaded, use_native>>
    /\ UNCHANGED notLabels

\* init_addon (28-58): the descriptor is looked up, the labels are updated,
\* and the registries are built when the descriptor names folders
InitAddon ==
    LET axf == IF addon_desc = "absent" THEN "" ELSE "project/addon.xml"
        folders == CASE addon_desc = "skin" -> <<FolderA, FolderB>>
                     [] addon_desc \in {"python", "python_skin"} ->
                            << checkPaths(SkinPaths, SkinPathsFound(addon_desc)) >>
                     [] OTHER -> <<>>
        ul == update_labels(axf, settings_loaded, builtin_list, addon_string_list,
                            string_list, po_disk)
        built == update_include_list(include_file_list, folders, inc_disk)
    IN  /\ addon_xml_file' = axf
        /\ IF addon_desc = "unparsable"
           THEN \* 36-37: root is None, root.xpath raises
                /\ xml_folders' = <<>>
                /\ fonts' = <<>>
                /\ label_result' = LabelResult("init_addon", <<>>, <<>>, "AttributeError")
                /\ UNCHANGED <<addon_string_list, string_list, include_list,
                               include_file_list, color_list>>
           ELSE /\ xml_folders' = folders
                /\ addon_string_list' = ul.addon_string_list
                /\ string_list' = ul.string_list
                /\ label_result' = LabelResult("init_addon", <<>>, <<>>, ul.raised)
                /\ IF ul.raised = "" /\ folders # <<>>
                   THEN /\ include_list' = built.il
                        /\ include_file_list' = built.ifl
                        /\ color_list' = get_colors(ColorsFile)
                        /\ fonts' = get_fonts(folders, font_disk)
                   ELSE /\ fonts' = <<>>
                        /\ UNCHANGED <<include_list, include_file_list, color_list>>
        /\ UNCHANGED <<po_disk, addon_desc, builtin_list, settings_loaded, use_native>>
        /\ UNCHANGED <<bracketVars, buildVars, diskVars, window_file_list, result,
                       resolveVars, rebuildVars, fileVars, busyVars, retryVars>>

\* one catalog file is written or removed on disk between two calls
SaveCatalog ==
    /\ \E path \in PoPaths :
         po_disk' = [p \in IF path \in DOMAIN po_disk
                           THEN DOMAIN po_disk \ {path}
                           ELSE DOMAIN po_disk \cup {path} |-> PoFile(p)]
    /\ label_result' = LabelResult("none", <<>>, <<>>, "")
    /\ UNCHANGED <<addon_desc, addon_xml_file, builtin_list, addon_string_list,
                   settings_loaded, use_native>>
    /\ UNCHANGED notLabels

NextLabels ==
    \/ GetSettings
    \/ GetBuiltinLabel
    \/ UpdateLabels
    \/ ReturnLabel
    \/ InitAddon
    \/ SaveCatalog

\* ------------------------------------------------------------------------
\* The include inliner
\* ------------------------------------------------------------------------
\* what a call returns besides a tree: None, and the RecursionError CPython
\* raises when the recursion of resolve_include has no end
None == Node("None", "", "", "", <<>>)

RecursionError == Node("RecursionError", "", "", "", <<>>)

\* a faulty variant: the last entry that carries the name
include_index_last(text, include_names) ==
    CHOOSE i \in 1..Len(include_names) :
        include_names[i] = text /\ \A j \in (i + 1)..Len(include_names) : include_names[j] # text

\* include_names.index(ref.text) (423)
include_index(text, include_names) == IndexOf(text, include_names)

\* resolve_include and resolve_includes on the registry il; depth is the
\* number of nested resolve_include calls still allowed
RECURSIVE resolve_include(_, _, _, _)
RECURSIVE resolve_includes(_, _, _, _)
RECURSIVE resolve_children(_, _, _, _, _)
resolve_include(ref, folder, il, depth) ==
    IF ref.text = "" THEN None
    ELSE LET include_names == [i \in 1..Len(il[folder]) |-> il[folder][i].name]
         IN  IF ~InSeq(ref.text, include_names) THEN None
             ELSE IF depth = 0 THEN RecursionError
             ELSE LET index == include_index(ref.text, include_names)
                      node == il[folder][index]
                      root == fromstring(node.content)
                  IN  resolve_includes(root, folder, il, depth - 1)

\* the loop of resolve_includes over the include nodes below kids[i..], in
\* document order: each kid, then the nodes below it.  A node that is replaced
\* still has the nodes below it visited, in the subtree that was taken out.
resolve_children(kids, i, folder, il, depth) ==
    IF i > Len(kids) THEN [raised |-> FALSE, kids |-> <<>>]
    ELSE LET node == kids[i]
             new_include == IF node.tag = "include" /\ node.text # ""
                            THEN resolve_include(node, folder, il, depth)
                            ELSE None
             below == resolve_includes(node, folder, il, depth)
             rest == resolve_children(kids, i + 1, folder, il, depth)
         IN  IF new_include = RecursionError THEN [raised |-> TRUE, kids |-> <<>>]
             ELSE IF below = RecursionError THEN [raised |-> TRUE, kids |-> <<>>]
             ELSE IF rest.raised THEN [raised |-> TRUE, kids |-> <<>>]
             ELSE [raised |-> FALSE,
                   kids |-> << IF new_include # None THEN new_include ELSE below >>
                            \o rest.kids]

resolve_includes(xml_source, folder, il, depth) ==
    LET done == resolve_children(xml_source.kids, 1, folder, il, depth)
    IN  IF done.raised THEN RecursionError
        ELSE [xml_source EXCEPT !.kids = done.kids]

\* the tree object resolve_includes was given, as the loop leaves it: the
\* nodes are replaced in the tree itself (435), up to the node at which a
\* RecursionError comes up, if one does
RECURSIVE tree_after_includes(_, _, _, _)
RECURSIVE kids_after_includes(_, _, _, _, _)
kids_after_includes(kids, i, folder, il, depth) ==
    IF i > Len(kids) THEN <<>>
    ELSE LET node == kids[i]
             new_include == IF node.tag = "include" /\ node.text # ""
                            THEN resolve_include(node, folder, il, depth)
                            ELSE None
             below == resolve_includes(node, folder, il, depth)
             unvisited == SubSeq(kids, i + 1, Len(kids))
         IN  IF new_include = RecursionError THEN <<node>> \o unvisited
             ELSE IF new_include # None
             THEN <<new_include>> \o (IF below = RecursionError THEN unvisited
                                      ELSE kids_after_includes(kids, i + 1, folder, il, depth))
             ELSE <<tree_after_includes(node, folder, il, depth)>>
                  \o (IF below = RecursionError THEN unvisited
                      ELSE kids_after_includes(kids, i + 1, folder, il, depth))

tree_after_includes(xml_source, folder, il, depth) ==
    [xml_source EXCEPT !.kids = kids_after_includes(xml_source.kids, 1, folder, il, depth)]

\* a faulty variant: the expanded fragment is written back to the entry
entry_after_resolve_expanded(entry, root) == [entry EXCEPT !.content = tostring(root)]

\* the registry entry resolve_include matched, after the call: 424-425 parse
\* its content into a new tree and store nothing
entry_after_resolve(entry, root) == entry

\* self.include_list after resolve_include(ref, folder) returned out
registry_after_resolve(il, ref, folder, out) ==
    LET include_names == [i \in 1..Len(il[folder]) |-> il[folder][i].name]
    IN  IF out = None \/ out = RecursionError THEN il
        ELSE [il EXCEPT ![folder][include_index(ref.text, include_names)] =
                            entry_after_resolve(@, out)]

\* the nodes the window files and the include definitions are made of
IncludeRef(text) == Node("include", "", "", text, <<>>)

Control == Node("control", "", "", "", <<>>)

\* the definitions Includes.xml may hold: two bodies for one name, a
\* definition that includes another, ones that include themselves or each
\* other, and a variable that carries the name of an include
Definitions ==
    { Node("include", "a", "", "", <<Control>>),
      Node("include", "a", "", "", <<IncludeRef("b")>>),
      Node("include", "a", "", "", <<IncludeRef("a")>>),
      Node("include", "b", "", "", <<Control, IncludeRef("c")>>),
      Node("include", "b", "", "", <<IncludeRef("a")>>),
      Node("variable", "b", "", "", <<Control>>) }

\* the children of the tree resolve_includes is called on
TreeKids ==
    { IncludeRef(""), IncludeRef("a"), IncludeRef("c"),
      Node("control", "", "", "", <<IncludeRef("b")>>),
      Node("include", "", "", "", <<IncludeRef("b")>>),
      Node("include", "", "", "a", <<IncludeRef("b")>>) }

Trees == { Node("window", "", "", "", k) : k \in SeqsUpTo(TreeKids, MaxKids) }

ResolveResult(op, folder, arg, out) ==
    [op |-> op, folder |-> folder, arg |-> arg, out |-> out]

\* a project whose include registry is built: update_include_list on the
\* include files of the two folders
InitResolve ==
    \E da \in SeqsUpTo(Definitions, MaxDefs),
       db \in { <<>>, << Node("include", "a", "", "", <<Control>>) >> } :
        LET idisk == [p \in { Path(FolderA, "Includes.xml"), Path(FolderB, "Includes.xml") }
                        |-> IF p.folder = FolderA THEN da ELSE db]
            built == update_include_list(<<>>, <<FolderA, FolderB>>, idisk)
        IN  /\ inc_disk = idisk
            /\ xml_folders = <<FolderA, FolderB>>
            /\ include_list = built.il
            /\ include_file_list = built.ifl
            /\ resolve_result = ResolveResult("none", "", None, None)
            /\ xml_tree = None
            /\ resolve_prev = ResolveResult("none", "", None, None)
            /\ disk = <<>>
            /\ font_disk = <<>>
            /\ window_file_list = <<>>
            /\ fonts = <<>>
            /\ color_list = <<>>
            /\ string_list = <<>>
            /\ result = [op |-> "none", raised |-> "", listitems |-> <<>>]

IdleResolve ==
    /\ resolve_result = ResolveResult("none", "", None, None)
    /\ xml_tree = None
    /\ resolve_prev = ResolveResult("none", "", None, None)

\* resolve_include (417-427) on an include node, called on the built registry
ResolveInclude ==
    /\ resolve_result.op = "none"
    /\ \E folder \in Folders, ref \in { t \in TreeKids : t.tag = "include" } :
         LET out == resolve_include(ref, folder, include_list, MaxResolveDepth)
         IN  /\ resolve_result' = ResolveResult("resolve_include", folder, ref, out)
             /\ include_list' = registry_after_resolve(include_list, ref, folder, out)
             /\ xml_tree' = ref
    /\ UNCHANGED resolve_prev
    /\ UNCHANGED notResolve

\* resolve_include called once more for the same include node and folder
ResolveIncludeAgain ==
    /\ resolve_result.op = "resolve_include"
    /\ resolve_prev.op = "none"
    /\ LET ref == resolve_result.arg
           folder == resolve_result.folder
           out == resolve_include(ref, folder, include_list, MaxResolveDepth)
       IN  /\ resolve_result' = ResolveResult("resolve_include", folder, ref, out)
           /\ include_list' = registry_after_resolve(include_list, ref, folder, out)
           /\ xml_tree' = ref
    /\ resolve_prev' = resolve_result
    /\ UNCHANGED notResolve

\* resolve_includes (429-436) on a tree, called on the built registry; the
\* tree that is returned is the tree that was passed (436)
ResolveIncludes ==
    /\ resolve_result.op = "none"
    /\ \E folder \in Folders, xml_source \in Trees :
         /\ resolve_result' = ResolveResult("resolve_includes", folder, xml_source,
                                   resolve_includes(xml_source, folder, include_list,
                                                    MaxResolveDepth))
         /\ xml_tree' = tree_after_includes(xml_source, folder, include_list,
                                            MaxResolveDepth)
    /\ UNCHANGED <<include_list, resolve_prev>>
    /\ UNCHANGED notResolve

NextResolve == ResolveInclude \/ ResolveIncludeAgain \/ ResolveIncludes

\* ------------------------------------------------------------------------
\* update_include_list on one thread, a check pass on another
\* ------------------------------------------------------------------------
\* run_async (utils.py 87-97) starts its function on a threading.Thread, and
\* InfoProvider holds no lock: the statements of update_include_list and the
\* reads of a check pass interleave in any order.

VariableA == IncNode("variable", "a", "")
VariableB == IncNode("variable", "b", "")

\* the include files of the two folders, before and after a file is saved
RebuildDisks ==
    { [p \in { Path(FolderA, "Includes.xml"), Path(FolderB, "Includes.xml") } \cup extra
          |-> IF p.name = "A.xml" THEN <<VariableB>>
              ELSE IF p.folder = FolderA THEN da ELSE db] :
        da \in { <<VariableA>>, << IncNode("include", "a", "A.xml"), VariableA >> },
        db \in { <<>>, <<VariableA>> },
        extra \in { {}, { Path(FolderA, "A.xml") } } }

\* the project was loaded from one state of the include files; they are in
\* another state now, and a check pass is about to read the registry
InitRebuild ==
    \E before \in RebuildDisks, after \in RebuildDisks :
        LET built == update_include_list(<<>>, <<FolderA, FolderB>>, before)
        IN  /\ inc_disk = after
            /\ inc_unparsable = {}
            /\ xml_folders = <<FolderA, FolderB>>
            /\ include_list = built.il
            /\ include_file_list = built.ifl
            /\ frames = <<>>
            /\ outcome = "running"
            /\ rebuild_pc = "idle"
            /\ rebuild_i = 0
            /\ registry_before = built.il
            /\ reader_i = 1
            /\ seen = <<>>
            /\ disk = <<>>
            /\ font_disk = <<>>
            /\ window_file_list = <<>>
            /\ fonts = <<>>
            /\ color_list = <<>>
            /\ string_list = <<>>
            /\ result = [op |-> "none", raised |-> "", listitems |-> <<>>]

IdleRebuild ==
    /\ rebuild_pc = "idle"
    /\ rebuild_i = 0
    /\ registry_before = <<>>
    /\ reader_i = 1
    /\ seen = <<>>

notRebuild == <<bracketVars, diskVars, inc_unparsable, xml_folders, window_file_list,
                fonts, color_list, string_list, result, labelVars, resolveVars,
                fileVars, busyVars, retryVars>>

\* reload_skin_after_save (102-106) on a saved include file the registry
\* knows: update_include_list is called
ReloadSkinAfterSave ==
    /\ rebuild_pc = "idle"
    /\ \E path \in DOMAIN inc_disk :
        /\ path.folder \in DOMAIN include_file_list
        /\ InSeq(path, include_file_list[path.folder])
    /\ rebuild_pc' = "clear"
    /\ UNCHANGED <<rebuild_i, registry_before, reader_i, seen>>
    /\ UNCHANGED <<include_list, include_file_list, frames, outcome, notRebuild>>

\* 113: self.include_list = {}
RebuildClear ==
    /\ rebuild_pc = "clear"
    /\ include_list' = <<>>
    /\ rebuild_pc' = "folder"
    /\ rebuild_i' = 1
    /\ UNCHANGED <<registry_before, reader_i, seen>>
    /\ UNCHANGED <<include_file_list, frames, outcome, notRebuild>>

\* 114-121 for the next folder, up to the call of update_includes
RebuildFolder ==
    /\ rebuild_pc = "folder"
    /\ rebuild_i <= Len(xml_folders)
    /\ LET folder == xml_folders[rebuild_i]
           paths == << Path(folder, "Includes.xml"), Path(folder, "includes.xml") >>
       IN  /\ include_file_list' =
                  [g \in DOMAIN include_file_list \cup {folder} |->
                      IF g = folder THEN <<>> ELSE include_file_list[g]]
           /\ include_list' =
                  [g \in DOMAIN include_list \cup {folder} |->
                      IF g = folder THEN <<>> ELSE include_list[g]]
           /\ frames' = << [xml_file |-> check_paths(paths, DOMAIN inc_disk), i |-> 0] >>
    /\ outcome' = "running"
    /\ rebuild_pc' = "includes"
    /\ UNCHANGED <<rebuild_i, registry_before, reader_i, seen>>
    /\ UNCHANGED notRebuild

\* 121-122: update_includes has returned, the for loop goes to the next folder
RebuildNext ==
    /\ rebuild_pc = "includes"
    /\ outcome = "returned"
    /\ rebuild_pc' = "folder"
    /\ rebuild_i' = rebuild_i + 1
    /\ UNCHANGED <<registry_before, reader_i, seen>>
    /\ UNCHANGED <<include_list, include_file_list, frames, outcome, notRebuild>>

\* the for loop of update_include_list is over
RebuildReturn ==
    /\ rebuild_pc = "folder"
    /\ rebuild_i > Len(xml_folders)
    /\ rebuild_pc' = "done"
    /\ UNCHANGED <<rebuild_i, registry_before, reader_i, seen>>
    /\ UNCHANGED <<include_list, include_file_list, frames, outcome, notRebuild>>

\* what self.include_list[folder] gives the check pass: KeyError when the
\* folder has no key, the entries otherwise
RegistryView(folder) ==
    IF folder \in DOMAIN include_list
    THEN [folder |-> folder, missing |-> FALSE, entries |-> include_list[folder]]
    ELSE [folder |-> folder, missing |-> TRUE, entries |-> <<>>]

\* check_variables (237, 256): the pass on the other thread reads the
\* registry of the next folder
CheckRead ==
    /\ reader_i <= Len(xml_folders)
    /\ seen' = Append(seen, RegistryView(xml_folders[reader_i]))
    /\ reader_i' = IF RegistryView(xml_folders[reader_i]).missing
                   THEN Len(xml_folders) + 1
                   ELSE reader_i + 1
    /\ UNCHANGED <<rebuild_pc, rebuild_i, registry_before>>
    /\ UNCHANGED <<include_list, include_file_list, frames, outcome, notRebuild>>

NextRebuild ==
    \/ ReloadSkinAfterSave
    \/ RebuildClear
    \/ RebuildFolder
    \/ IncludeMissing
    \/ IncludeRead
    \/ IncludeRecurse
    \/ IncludeSkip
    \/ IncludeReturn
    \/ RebuildNext
    \/ RebuildReturn
    \/ CheckRead

\* ------------------------------------------------------------------------
\* check_file and the untranslated-text rule of check_labels, on one parsed
\* window file
\* ------------------------------------------------------------------------
\* A parsed file is the sequence of its elements in document order.  An
\* element holds its tag, its attributes in the order written (name and the
\* characters of the value), the characters of its text (<<>> for None and
\* for "", which `not node.text` and `not element.text` treat alike) and the
\* position of its parent (0 for the root).  One element is written per line,
\* so node.sourceline is the position.
Element(tag, attrib, text, parent) ==
    [tag |-> tag, attrib |-> attrib, text |-> text, parent |-> parent]

Attr(name, value) == [name |-> name, value |-> value]

\* "name" in node.attrib, node.attrib[name]
HasAttr(e, name) == \E k \in 1..Len(e.attrib) : e.attrib[k].name = name

AttrValue(e, name) == e.attrib[CHOOSE k \in 1..Len(e.attrib) : e.attrib[k].name = name].value

\* root.xpath(".//..."): the elements below the root
Below(doc) == 2..Len(doc)

\* node.getchildren()
Children(doc, p) == { i \in 1..Len(doc) : doc[i].parent = p }

\* a set of positions in document order, as xpath returns a node set
RECURSIVE Ascending(_)
Ascending(S) ==
    IF S = {} THEN <<>>
    ELSE LET first == CHOOSE x \in S : \A y \in S : x <= y
         IN  <<first>> \o Ascending(S \ {first})

RECURSIVE Concat(_)
Concat(ss) == IF ss = <<>> THEN <<>> ELSE Head(ss) \o Concat(Tail(ss))

\* 514, 516: the tags every control may hold, and those of the containers
common == {"description", "camera", "posx", "posy", "top", "bottom", "left", "right",
    "centertop", "centerbottom", "centerleft", "centerright", "width", "height",
    "visible", "include", "animation"}

list_common == {"focusedlayout", "itemlayout", "content", "onup", "ondown", "onleft",
    "onright", "onback", "orientation", "preloaditems", "scrolltime", "pagecontrol",
    "viewtype", "autoscroll", "hitrect"}

\* 517-540: the selectors of the structural check and what each allows.  A
\* selector picks the children of: the control elements of one type below the
\* root, the elements of some tags below the root, or the root of one tag.
tag_checks ==
    << [kind |-> "control", parents |-> {"control"}, type |-> "button",        allowed |->
                      common \cup {"colordiffuse", "texturefocus", "texturenofocus",
                      "label", "label2", "font", "textcolor", "disabledcolor",
                      "selectedcolor", "shadowcolor", "align", "aligny", "textoffsetx",
                      "textoffsety", "pulseonselect", "onclick", "onfocus", "onunfocus",
                      "onup", "onleft", "onright", "ondown", "onback", "textwidth",
                      "focusedcolor", "invalidcolor", "angle", "hitrect", "enable"}],
       [kind |-> "control", parents |-> {"control"}, type |-> "radiobutton",        allowed |->
                      common \cup {"colordiffuse", "texturefocus", "texturenofocus",
                      "label", "selected", "font", "textcolor", "disabledcolor",
                      "selectedcolor", "shadowcolor", "align", "aligny", "textoffsetx",
                      "textoffsety", "pulseonselect", "onclick", "onfocus", "onunfocus",
                      "onup", "onleft", "onright", "ondown", "onback", "textwidth",
                      "focusedcolor", "angle", "hitrect", "enable",
                      "textureradioonfocus", "textureradioofffocus",
                      "textureradioonnofocus", "textureradiooffnofocus",
                      "textureradioon", "textureradiooff", "radioposx", "radioposy",
                      "radiowidth", "radioheight"}],
       [kind |-> "control", parents |-> {"control"}, type |-> "spincontrol",        allowed |->
                      common \cup {"colordiffuse", "textureup", "textureupfocus",
                      "texturedown", "texturedownfocus", "spinwidth", "spinheight",
                      "spinposx", "spinposylabel", "subtype", "font", "textcolor",
                      "disabledcolor", "shadowcolor", "align", "aligny", "textoffsetx",
                      "textoffsety", "pulseonselect", "onfocus", "onunfocus", "onup",
                      "onleft", "onright", "ondown", "onback", "hitrect", "enable",
                      "showonepage"}],
       [kind |-> "control", parents |-> {"control"}, type |-> "togglebutton",        allowed
                      |-> common \cup {"colordiffuse", "texturefocus",
                      "alttexturefocus", "alttexturenofocus", "altclick",
                      "texturenofocus", "label", "altlabel", "usealttexture", "font",
                      "textcolor", "disabledcolor", "shadowcolor", "align", "aligny",
                      "textoffsetx", "textoffsety", "pulseonselect", "onclick",
                      "onfocus", "onunfocus", "onup", "onleft", "onright", "ondown",
                      "onback", "textwidth", "focusedcolor", "subtype", "hitrect",
                      "enable"}],
       [kind |-> "control", parents |-> {"control"}, type |-> "label",        allowed |->
                      common \cup {"align", "aligny", "scroll", "scrollout", "info",
                      "number", "angle", "haspath", "label", "textcolor",
                      "selectedcolor", "font", "shadowcolor", "disabledcolor",
                      "pauseatend", "wrapmultiline", "scrollspeed", "scrollsuffix",
                      "textoffsetx", "textoffsety"}],
       [kind |-> "control", parents |-> {"control"}, type |-> "textbox",        allowed |->
                      common \cup {"align", "aligny", "autoscroll", "label", "info",
                      "font", "textcolor", "selectedcolor", "shadowcolor",
                      "pagecontrol"}],
       [kind |-> "control", parents |-> {"control"}, type |-> "edit",        allowed |-> common
                      \cup {"colordiffuse", "align", "aligny", "label", "hinttext",
                      "font", "textoffsetx", "textoffsety", "pulseonselect",
                      "textcolor", "disabledcolor", "invalidcolor", "focusedcolor",
                      "shadowcolor", "texturefocus", "texturenofocus", "onclick",
                      "onfocus", "onunfocus", "onup", "onleft", "onright", "ondown",
                      "onback", "textwidth", "hitrect", "enable"}],
       [kind |-> "control", parents |-> {"control"}, type |-> "image",        allowed |->
                      common \cup {"align", "aligny", "aspectratio", "fadetime",
                      "colordiffuse", "texture", "bordertexture", "bordersize", "info"}],
       [kind |-> "control", parents |-> {"control"}, type |-> "multiimage",        allowed |->
                      common \cup {"align", "aligny", "aspectratio", "fadetime",
                      "colordiffuse", "imagepath", "timeperimage", "loop", "info",
                      "randomize", "pauseatend"}],
       [kind |-> "control", parents |-> {"control"}, type |-> "scrollbar",        allowed |->
                      common \cup {"texturesliderbackground", "texturesliderbar",
                      "texturesliderbarfocus", "textureslidernib",
                      "textureslidernibfocus", "pulseonselect", "orientation",
                      "showonepage", "pagecontrol", "onclick", "onfocus", "onunfocus",
                      "onup", "onleft", "onright", "ondown", "onback"}],
       [kind |-> "control", parents |-> {"control"}, type |-> "progress",        allowed |->
                      common \cup {"texturebg", "lefttexture", "colordiffuse",
                      "righttexture", "overlaytexture", "midtexture", "info", "reveal"}],
       [kind |-> "control", parents |-> {"control"}, type |-> "videowindow",        allowed |->
                      common],
       [kind |-> "control", parents |-> {"control"}, type |-> "visualisation",        allowed
                      |-> common],
       [kind |-> "control", parents |-> {"control"}, type |-> "list",        allowed |-> common
                      \cup list_common],
       [kind |-> "control", parents |-> {"control"}, type |-> "wraplist",        allowed |->
                      common \cup list_common \cup {"focusposition"}],
       [kind |-> "control", parents |-> {"control"}, type |-> "panel",        allowed |->
                      common \cup list_common],
       [kind |-> "control", parents |-> {"control"}, type |-> "fixedlist",        allowed |->
                      common \cup list_common \cup {"movement", "focusposition"}],
       [kind |-> "descendant", parents |-> {"content"}, type |-> "",        allowed |->
                      {"item", "include"}],
       [kind |-> "descendant", parents |-> {"itemlayout", "focusedlayout"}, type |-> "",
                      allowed |-> {"control", "include"}],
       [kind |-> "root", parents |-> {"includes"}, type |-> "",        allowed |-> {"include",
                      "default", "constant", "variable"}],
       [kind |-> "root", parents |-> {"window"}, type |-> "",        allowed |-> {"include",
                      "defaultcontrol", "onload", "onunload", "controls",
                      "allowoverlay", "views", "coordinates", "animation", "visible",
                      "zorder", "fontset", "backgroundcolor"}],
       [kind |-> "root", parents |-> {"fonts"}, type |-> "",        allowed |-> {"fontset"}],
       [kind |-> "descendant", parents |-> {"variable"}, type |-> "",        allowed |->
                      {"value"}] >>

\* 542-559: the attributes the elements of some tags may carry
att_checks ==
    << [tags |-> {"aspectratio"},        allowed |-> {"align", "aligny", "scalediffuse"}],
       [tags |-> {"texture"},        allowed |-> {"background", "flipx", "flipy", "fallback",
                      "border", "diffuse", "colordiffuse"}],
       [tags |-> {"label"},        allowed |-> {"fallback"}],
       [tags |-> {"defaultcontrol"},        allowed |-> {"always"}],
       [tags |-> {"visible"},        allowed |-> {"allowhiddenfocus"}],
       [tags |-> {"align", "aligny", "posx", "posy", "textoffsetx", "textoffsety"},
                      allowed |-> {}],
       [tags |-> {"height", "width"},        allowed |-> {"min", "max"}],
       [tags |-> {"camera"},        allowed |-> {"x", "y"}],
       [tags |-> {"hitrect"},        allowed |-> {"x", "y", "w", "h"}],
       [tags |-> {"onload", "onunload", "onclick", "onleft", "onright", "onup", "ondown",
                      "onback", "onfocus", "onunfocus", "value"},        allowed |->
                      {"condition"}],
       [tags |-> {"property"},        allowed |-> {"name", "fallback"}],
       [tags |-> {"focusedlayout", "itemlayout"},        allowed |-> {"height", "width",
                      "condition"}],
       [tags |-> {"item"},        allowed |-> {"id"}],
       [tags |-> {"control"},        allowed |-> {"id", "type"}],
       [tags |-> {"variable"},        allowed |-> {"name"}],
       [tags |-> {"include"},        allowed |-> {"name", "condition", "file"}],
       [tags |-> {"animation"},        allowed |-> {"start", "end", "effect", "tween",
                      "easing", "time", "condition", "reversible", "type", "center",
                      "delay", "pulse", "loop", "acceleration"}],
       [tags |-> {"effect"},        allowed |-> {"start", "end", "tween", "easing", "time",
                      "condition", "type", "center", "delay", "pulse", "loop",
                      "acceleration"}] >>

\* 561, 563, 566-568
bracket_tags == {"visible", "enable", "usealttexture", "selected"}

noop_tags == {"onclick", "onfocus", "onunfocus", "onup", "onleft", "onright", "ondown",
    "onback"}

double_tags == {"camera", "posx", "posy", "top", "bottom", "left", "right", "centertop",
    "centerbottom", "centerleft", "centerright", "width", "height", "colordiffuse",
    "texturefocus", "texturenofocus", "font", "selected", "textcolor", "disabledcolor",
    "selectedcolor", "shadowcolor", "align", "aligny", "textoffsetx", "textoffsety",
    "pulseonselect", "textwidth", "focusedcolor", "invalidcolor", "angle", "hitrect"}

\* 570-576: the values the text of some tags may take
allowed_text ==
    << [tags |-> {"align"},        allowed |-> {"left", "center", "right", "justify"}],
       [tags |-> {"aspectratio"},        allowed |-> {"keep", "scale", "stretch", "center"}],
       [tags |-> {"aligny"},        allowed |-> {"top", "center", "bottom"}],
       [tags |-> {"orientation"},        allowed |-> {"horizontal", "vertical"}],
       [tags |-> {"subtype"},        allowed |-> {"page", "int", "float", "text"}],
       [tags |-> {"action"},        allowed |-> {"volume", "seek"}],
       [tags |-> {"scroll", "randomize", "scrollout", "pulseonselect", "reverse",
                      "usecontrolcoords"},        allowed |-> {"false", "true", "yes",
                      "no"}] >>

\* 578-581: the values some attributes may take
allowed_attr ==
    << [attr |-> "align",        allowed |-> {"left", "center", "right", "justify"}],
       [attr |-> "aligny",        allowed |-> {"top", "center", "bottom"}],
       [attr |-> "flipx",        allowed |-> {"true", "false"}],
       [attr |-> "flipy",        allowed |-> {"true", "false"}] >>

\* the characters of the words of the rule tables
Chars(w) ==
    CASE w = "bottom" -> <<"b", "o", "t", "t", "o", "m">>
      [] w = "center" -> <<"c", "e", "n", "t", "e", "r">>
      [] w = "false" -> <<"f", "a", "l", "s", "e">>
      [] w = "float" -> <<"f", "l", "o", "a", "t">>
      [] w = "horizontal" -> <<"h", "o", "r", "i", "z", "o", "n", "t", "a", "l">>
      [] w = "int" -> <<"i", "n", "t">>
      [] w = "justify" -> <<"j", "u", "s", "t", "i", "f", "y">>
      [] w = "keep" -> <<"k", "e", "e", "p">>
      [] w = "left" -> <<"l", "e", "f", "t">>
      [] w = "no" -> <<"n", "o">>
      [] w = "page" -> <<"p", "a", "g", "e">>
      [] w = "right" -> <<"r", "i", "g", "h", "t">>
      [] w = "scale" -> <<"s", "c", "a", "l", "e">>
      [] w = "seek" -> <<"s", "e", "e", "k">>
      [] w = "stretch" -> <<"s", "t", "r", "e", "t", "c", "h">>
      [] w = "text" -> <<"t", "e", "x", "t">>
      [] w = "top" -> <<"t", "o", "p">>
      [] w = "true" -> <<"t", "r", "u", "e">>
      [] w = "vertical" -> <<"v", "e", "r", "t", "i", "c", "a", "l">>
      [] w = "volume" -> <<"v", "o", "l", "u", "m", "e">>
      [] w = "yes" -> <<"y", "e", "s">>
      [] w = "button" -> <<"b", "u", "t", "t", "o", "n">>
      [] w = "radiobutton" -> <<"r", "a", "d", "i", "o", "b", "u", "t", "t", "o", "n">>
      [] w = "spincontrol" -> <<"s", "p", "i", "n", "c", "o", "n", "t", "r", "o", "l">>
      [] w = "togglebutton" -> <<"t", "o", "g", "g", "l", "e", "b", "u", "t", "t", "o",
        "n">>
      [] w = "label" -> <<"l", "a", "b", "e", "l">>
      [] w = "textbox" -> <<"t", "e", "x", "t", "b", "o", "x">>
      [] w = "edit" -> <<"e", "d", "i", "t">>
      [] w = "image" -> <<"i", "m", "a", "g", "e">>
      [] w = "multiimage" -> <<"m", "u", "l", "t", "i", "i", "m", "a", "g", "e">>
      [] w = "scrollbar" -> <<"s", "c", "r", "o", "l", "l", "b", "a", "r">>
      [] w = "progress" -> <<"p", "r", "o", "g", "r", "e", "s", "s">>
      [] w = "videowindow" -> <<"v", "i", "d", "e", "o", "w", "i", "n", "d", "o", "w">>
      [] w = "visualisation" -> <<"v", "i", "s", "u", "a", "l", "i", "s", "a", "t", "i",
        "o", "n">>
      [] w = "list" -> <<"l", "i", "s", "t">>
      [] w = "wraplist" -> <<"w", "r", "a", "p", "l", "i", "s", "t">>
      [] w = "panel" -> <<"p", "a", "n", "e", "l">>
      [] w = "fixedlist" -> <<"f", "i", "x", "e", "d", "l", "i", "s", "t">>

\* str.lower on one character
UpperCase == <<"A", "B", "C", "D", "E", "F", "G", "H", "I", "J", "K", "L", "M", "N",
        "O", "P", "Q", "R", "S", "T", "U", "V", "W", "X", "Y", "Z">>

LowerCase == <<"a", "b", "c", "d", "e", "f", "g", "h", "i", "j", "k", "l", "m", "n",
        "o", "p", "q", "r", "s", "t", "u", "v", "w", "x", "y", "z">>

DigitChars == <<"0", "1", "2", "3", "4", "5", "6", "7", "8", "9">>

lower_char(c) == IF InSeq(c, UpperCase) THEN LowerCase[IndexOf(c, UpperCase)] ELSE c

\* str.lower
lower(s) == [k \in 1..Len(s) |-> lower_char(s[k])]

Letters == { UpperCase[k] : k \in 1..Len(UpperCase) } \cup { LowerCase[k] : k \in 1..Len(LowerCase) }

\* check_brackets (utils.py 223-240) from its i-th character on, the stack
\* being st
RECURSIVE check_brackets_from(_, _, _)
check_brackets_from(s, i, st) ==
    IF i > Len(s) THEN st = <<>>
    ELSE IF InSeq(s[i], push_chars) THEN check_brackets_from(s, i + 1, Append(st, s[i]))
    ELSE IF InSeq(s[i], pop_chars)
         THEN IF st = <<>> THEN FALSE
              ELSE IF st[Len(st)] # balancing_bracket(s[i]) THEN FALSE
              ELSE check_brackets_from(s, i + 1, SubSeq(st, 1, Len(st) - 1))
    ELSE check_brackets_from(s, i + 1, st)

check_brackets(s) == check_brackets_from(s, 1, <<>>)

\* str.replace("  ", "") and str.replace("\t", "")
RECURSIVE remove_double_spaces(_)
remove_double_spaces(s) ==
    IF Len(s) < 2 THEN s
    ELSE IF s[1] = " " /\ s[2] = " " THEN remove_double_spaces(SubSeq(s, 3, Len(s)))
    ELSE <<s[1]>> \o remove_double_spaces(Tail(s))

remove_tabs(s) == SelectSeq(s, LAMBDA c : c # "\t")

\* one entry of listitems.  The message is held as its format, the tags put
\* into it and the characters put into it.
Diagnostic(doc, i, format, tags, text) ==
    [line |-> i, type |-> doc[i].tag,
     message |-> [format |-> format, tags |-> tags, text |-> text]]

\* 589-602: the children a selector picks whose tag it does not allow
Selected(doc, i, check) ==
    LET p == doc[i].parent
    IN  /\ p >= 1
        /\ doc[p].tag \in check.parents
        /\ CASE check.kind = "control" ->
                    /\ p >= 2
                    /\ HasAttr(doc[p], "type")
                    /\ AttrValue(doc[p], "type") = Chars(check.type)
             [] check.kind = "descendant" -> p >= 2
             [] check.kind = "root" -> p = 1

invalid_tag(doc, i) ==
    LET parent == doc[doc[i].parent]
    IN  Diagnostic(doc, i, "invalid tag for <%s>: <%s>", <<parent.tag, doc[i].tag>>,
                   IF HasAttr(parent, "type") THEN AttrValue(parent, "type") ELSE <<>>)

invalid_tags_of(doc, check) ==
    LET at == Ascending({ i \in Below(doc) :
                            Selected(doc, i, check) /\ doc[i].tag \notin check.allowed })
    IN  [k \in 1..Len(at) |-> invalid_tag(doc, at[k])]

invalid_tags(doc) == Concat([c \in 1..Len(tag_checks) |-> invalid_tags_of(doc, tag_checks[c])])

\* 603-614: the attributes of the elements of some tags
invalid_attributes_of_node(doc, i, check) ==
    LET bad == SelectSeq(doc[i].attrib, LAMBDA a : a.name \notin check.allowed)
    IN  [k \in 1..Len(bad) |->
            Diagnostic(doc, i, "invalid attribute for <%s>: %s",
                       <<doc[i].tag, bad[k].name>>, <<>>)]

invalid_attributes_of(doc, check) ==
    LET at == Ascending({ i \in Below(doc) : doc[i].tag \in check.tags })
    IN  Concat([k \in 1..Len(at) |-> invalid_attributes_of_node(doc, at[k], check)])

invalid_attributes(doc) ==
    Concat([c \in 1..Len(att_checks) |-> invalid_attributes_of(doc, att_checks[c])])

\* 615-630: the conditions in element content
content_conditions(doc) ==
    LET at == Ascending({ i \in Below(doc) :
                            /\ doc[i].tag \in bracket_tags
                            /\ doc[i].text = <<>> \/ ~check_brackets(doc[i].text) })
    IN  [k \in 1..Len(at) |->
            IF doc[at[k]].text = <<>>
            THEN Diagnostic(doc, at[k], "Empty condition: %s", <<doc[at[k]].tag>>, <<>>)
            ELSE Diagnostic(doc, at[k], "Brackets do not match: %s", <<>>,
                            remove_tabs(remove_double_spaces(doc[at[k]].text)))]

\* 631-640: the conditions in attribute values
attribute_conditions(doc) ==
    LET at == Ascending({ i \in Below(doc) :
                            /\ HasAttr(doc[i], "condition")
                            /\ ~check_brackets(AttrValue(doc[i], "condition")) })
    IN  [k \in 1..Len(at) |->
            Diagnostic(doc, at[k], "Brackets do not match: %s", <<>>,
                       remove_tabs(remove_double_spaces(AttrValue(doc[at[k]], "condition"))))]

\* 641-650: noop as the empty action
empty_actions(doc) ==
    LET at == Ascending({ i \in Below(doc) :
                            /\ doc[i].tag \in noop_tags
                            /\ doc[i].text = <<"-">> \/ doc[i].text = <<>> })
    IN  [k \in 1..Len(at) |->
            Diagnostic(doc, at[k], "Use 'noop' for empty calls <%s>", <<doc[at[k]].tag>>, <<>>)]

\* str(n) for n >= 1
RECURSIVE str(_)
str(n) == IF n < 10 THEN <<DigitChars[n + 1]>>
          ELSE str(n \div 10) \o <<DigitChars[(n % 10) + 1]>>

\* str.endswith
endswith(s, suffix) ==
    /\ Len(s) >= Len(suffix)
    /\ SubSeq(s, Len(s) - Len(suffix) + 1, Len(s)) = suffix

\* tree.getpath(node), the characters after the tag name of its last step:
\* none when the element is the only one of its tag under its parent, its
\* position among the elements of its tag under its parent in brackets
\* otherwise.  A tag name holds no bracket, so the path ends with "]" or
\* with "[1]" exactly when these characters do.
getpath_index(doc, i) ==
    LET same == { j \in Children(doc, doc[i].parent) : doc[j].tag = doc[i].tag }
    IN  IF Cardinality(same) = 1 THEN <<>>
        ELSE <<"[">> \o str(Cardinality({ j \in same : j <= i })) \o <<"]">>

\* 651-662: the tags that may occur once on a level
multiple_tags(doc) ==
    LET at == Ascending({ i \in Below(doc) :
                            /\ doc[i].tag \in double_tags
                            /\ Children(doc, i) = {}
                            /\ endswith(getpath_index(doc, i), <<"]">>)
                            /\ ~endswith(getpath_index(doc, i), <<"[", "1", "]">>) })
    IN  [k \in 1..Len(at) |->
            Diagnostic(doc, at[k], "Invalid multiple tags for %s: <%s>",
                       <<doc[doc[at[k]].parent].tag, doc[at[k]].tag>>, <<>>)]

\* 663-673: the tags that take one of a set of values
invalid_values_of(doc, check) ==
    LET at == Ascending({ i \in Below(doc) :
                            /\ doc[i].tag \in check.tags
                            /\ lower(doc[i].text) \notin { Chars(w) : w \in check.allowed } })
    IN  [k \in 1..Len(at) |->
            Diagnostic(doc, at[k], "invalid value for %s: %s", <<doc[at[k]].tag>>,
                       doc[at[k]].text)]

invalid_values(doc) ==
    Concat([c \in 1..Len(allowed_text) |-> invalid_values_of(doc, allowed_text[c])])

\* 666: node.text is None for an element without text, and None has no lower
lower_raises(doc) ==
    \E c \in 1..Len(allowed_text) :
        \E i \in Below(doc) : doc[i].tag \in allowed_text[c].tags /\ doc[i].text = <<>>

\* 674-683: the attributes that take one of a set of values
invalid_attribute_values_of(doc, check) ==
    LET at == Ascending({ i \in Below(doc) :
                            /\ HasAttr(doc[i], check.attr)
                            /\ AttrValue(doc[i], check.attr)
                                   \notin { Chars(w) : w \in check.allowed } })
    IN  [k \in 1..Len(at) |->
            Diagnostic(doc, at[k], "invalid value for %s attribute: %s", <<check.attr>>,
                       AttrValue(doc[at[k]], check.attr))]

invalid_attribute_values(doc) ==
    Concat([c \in 1..Len(allowed_attr) |->
               invalid_attribute_values_of(doc, allowed_attr[c])])

\* check_file (582-684) on the root get_root_from_file returned
check_file_root(doc) ==
    IF lower_raises(doc)
    THEN [op |-> "check_file", raised |-> "AttributeError", listitems |-> <<>>]
    ELSE [op |-> "check_file", raised |-> "",
          listitems |-> invalid_tags(doc) \o invalid_attributes(doc)
                        \o content_conditions(doc) \o attribute_conditions(doc)
                        \o empty_actions(doc) \o multiple_tags(doc)
                        \o invalid_values(doc) \o invalid_attribute_values(doc)]

\* check_labels 464-474: the text of the label tags
label_tags == {"label", "altlabel", "label2"}

\* re.match(r"[A-Za-z]+", text): the pattern is tried at the start of the text
label_regex_match(text) == Len(text) >= 1 /\ text[1] \in Letters

not_translated(text) == ~InSeq("$", text) /\ ~isdigit(text) /\ label_regex_match(text)

untranslated_text(doc) ==
    LET at == Ascending({ i \in Below(doc) :
                            /\ doc[i].tag \in label_tags
                            /\ doc[i].text # <<>>
                            /\ not_translated(doc[i].text) })
    IN  [k \in 1..Len(at) |->
            Diagnostic(doc, at[k], "Label in <%s> not translated: %s", <<doc[at[k]].tag>>,
                       doc[at[k]].text)]

\* check_labels 444-446, 476-492: the attributes that hold a label
label_attr_checks ==
    << [tag |-> "viewtype", attr |-> "label"],
       [tag |-> "fontset", attr |-> "idloc"],
       [tag |-> "label", attr |-> "fallback"] >>

untranslated_attr_of(doc, check) ==
    LET at == Ascending({ i \in Below(doc) :
                            /\ doc[i].tag = check.tag
                            /\ HasAttr(doc[i], check.attr)
                            /\ not_translated(AttrValue(doc[i], check.attr)) })
    IN  [k \in 1..Len(at) |->
            Diagnostic(doc, at[k], "Label in attribute not translated: %s", <<>>,
                       AttrValue(doc[at[k]], check.attr))]

\* the untranslated-text entries of check_labels for one file: those of the
\* element content, then those of the attributes
untranslated_labels(doc) ==
    [op |-> "check_labels", raised |-> "",
     listitems |-> untranslated_text(doc)
                   \o Concat([c \in 1..Len(label_attr_checks) |->
                                 untranslated_attr_of(doc, label_attr_checks[c])])]

\* ---- the window files the checks are run on -------------------------------
\* what a control may hold: an element with its attributes and text, with or
\* without an element of its own
FileItem(tag, attrib, text, nested) ==
    [tag |-> tag, attrib |-> attrib, text |-> text, nested |-> nested]

FileItems ==
    { FileItem("width", <<>>, <<"1", "0">>, FALSE),
      FileItem("width", <<>>, <<>>, TRUE),
      FileItem("width", <<Attr("condition", <<"(">>)>>, <<"1", "0">>, FALSE),
      FileItem("label", <<>>, <<"H", "e", "l", "l", "o">>, FALSE),
      FileItem("texture", <<>>, <<"a">>, FALSE),
      FileItem("visible", <<>>, <<>>, FALSE),
      FileItem("visible", <<>>, <<"[", "A", "]">>, FALSE),
      FileItem("visible", <<>>, <<"[", "A", "(", "B", "]">>, FALSE),
      FileItem("onclick", <<>>, <<"-">>, FALSE),
      FileItem("onclick", <<Attr("condition", <<>>)>>, <<"A">>, FALSE),
      FileItem("onclick", <<Attr("condition", <<"]">>)>>, <<"A">>, FALSE),
      FileItem("align", <<>>, <<"L", "e", "f", "t">>, FALSE),
      FileItem("align", <<>>, <<"u", "p">>, FALSE),
      FileItem("align", <<>>, <<>>, FALSE),
      FileItem("aspectratio", <<Attr("align", <<"u", "p">>)>>, <<"k", "e", "e", "p">>, FALSE) }

\* the elements of the items of one parent, the first of them at position at
RECURSIVE elements_of(_, _, _)
elements_of(items, parent, at) ==
    IF items = <<>> THEN <<>>
    ELSE LET it == Head(items)
             nested == IF it.nested THEN << Element("value", <<>>, <<"a">>, at) >> ELSE <<>>
         IN  << Element(it.tag, it.attrib, it.text, parent) >> \o nested
             \o elements_of(Tail(items), parent, at + 1 + Len(nested))

\* <window><controls><control type="...">items</control></controls></window>
WindowDoc(type, items) ==
    << Element("window", <<>>, <<>>, 0),
       Element("controls", <<>>, <<>>, 1),
       Element("control", <<Attr("type", Chars(type))>>, <<>>, 2) >>
    \o elements_of(items, 3, 4)

ControlTypes == {"button", "spincontrol"}

\* the texts of a label: the four of the scenarios and every short text over
\* a letter, a digit, the sentinel and the space
LabelChars == {"A", "2", "$", " "}

LabelTexts ==
    { <<"H", "e", "l", "l", "o">>,
      <<"3", "1", "0", "0", "0">>,
      <<"$", "L", "O", "C", "A", "L", "I", "Z", "E", "[", "3", "1", "0", "0", "0", "]">>,
      <<"2", " ", "i", "t", "e", "m", "s">> }
    \cup SeqsUpTo(LabelChars, MaxTextLen)

\* a control that holds the same singleton tag n times
Repeated(tag, n) == [k \in 1..n |-> FileItem(tag, <<>>, <<"1">>, FALSE)]

RepeatedTags == 11

Docs ==
    { WindowDoc(t, items) : t \in ControlTypes, items \in SeqsUpTo(FileItems, MaxItems) }
    \cup { WindowDoc("button", << FileItem(tag, <<>>, text, FALSE) >>) :
             tag \in {"label", "label2"}, text \in LabelTexts }
    \cup { WindowDoc("button", << FileItem("label", <<Attr("fallback", text)>>,
                                           <<"3", "1", "0", "0", "0">>, FALSE) >>) :
             text \in LabelTexts }
    \cup { WindowDoc("button", Repeated("width", RepeatedTags)) }

FileResult(op) == [op |-> op, raised |-> "", listitems |-> <<>>]

InitFile ==
    /\ xml_doc \in Docs
    /\ file_result = FileResult("none")

IdleFile ==
    /\ xml_doc = <<>>
    /\ file_result = FileResult("none")

notFile == <<bracketVars, checkVars, buildVars, labelVars, resolveVars, rebuildVars,
             busyVars, retryVars>>

\* check_file on the file
CheckFile ==
    /\ file_result.op = "none"
    /\ file_result' = check_file_root(xml_doc)
    /\ UNCHANGED xml_doc
    /\ UNCHANGED notFile

\* check_labels on the file, as far as the untranslated texts go
CheckLabelsText ==
    /\ file_result.op = "none"
    /\ file_result' = untranslated_labels(xml_doc)
    /\ UNCHANGED xml_doc
    /\ UNCHANGED notFile

NextFile == CheckFile \/ CheckLabelsText

\* ------------------------------------------------------------------------
\* utils.check_busy: decorated calls on one object from several threads
\* ------------------------------------------------------------------------
\* run_async (utils.py 87-97) starts each call on a threading.Thread; the
\* statements of the decorator run by different threads interleave in any
\* order.
Threads == 1..NumThreads

\* where a call is: "idle" (no call in progress), "tested" (108 found
\* is_busy false), "func" (111 is set, the wrapped function runs), "after"
\* (the try statement is over)
InitBusy ==
    /\ is_busy = FALSE
    /\ busy_pc = [t \in Threads |-> "idle"]
    /\ busy_calls = [t \in Threads |-> 0]
    /\ busy_last = [t \in Threads |-> "none"]

IdleBusy ==
    /\ is_busy = FALSE
    /\ busy_pc = <<>>
    /\ busy_calls = <<>>
    /\ busy_last = <<>>

notBusy == <<bracketVars, checkVars, buildVars, labelVars, resolveVars, rebuildVars,
             fileVars, retryVars>>

\* 108-110: is_busy is set, the call logs and returns None
BusyReject(t) ==
    /\ busy_pc[t] = "idle"
    /\ busy_calls[t] < MaxCalls
    /\ is_busy
    /\ busy_calls' = [busy_calls EXCEPT ![t] = @ + 1]
    /\ busy_last' = [busy_last EXCEPT ![t] = "rejected"]
    /\ UNCHANGED <<is_busy, busy_pc>>
    /\ UNCHANGED notBusy

\* 108: is_busy is not set, the call goes on
BusyTest(t) ==
    /\ busy_pc[t] = "idle"
    /\ busy_calls[t] < MaxCalls
    /\ ~is_busy
    /\ busy_pc' = [busy_pc EXCEPT ![t] = "tested"]
    /\ UNCHANGED <<is_busy, busy_calls, busy_last>>
    /\ UNCHANGED notBusy

\* 111-113: self.is_busy = True, and the wrapped function is entered
BusySet(t) ==
    /\ busy_pc[t] = "tested"
    /\ is_busy' = TRUE
    /\ busy_pc' = [busy_pc EXCEPT ![t] = "func"]
    /\ UNCHANGED <<busy_calls, busy_last>>
    /\ UNCHANGED notBusy

\* 113: the wrapped function returns
FuncReturn(t) ==
    /\ busy_pc[t] = "func"
    /\ busy_pc' = [busy_pc EXCEPT ![t] = "after"]
    /\ busy_last' = [busy_last EXCEPT ![t] = "returned"]
    /\ UNCHANGED <<is_busy, busy_calls>>
    /\ UNCHANGED notBusy

\* 113-115: the wrapped function raises an Exception, which is logged
FuncRaise(t) ==
    /\ busy_pc[t] = "func"
    /\ busy_pc' = [busy_pc EXCEPT ![t] = "after"]
    /\ busy_last' = [busy_last EXCEPT ![t] = "Exception"]
    /\ UNCHANGED <<is_busy, busy_calls>>
    /\ UNCHANGED notBusy

\* 113-114: the wrapped function raises what `except Exception` does not
\* catch (SystemExit, KeyboardInterrupt); it leaves the decorator
FuncAbort(t) ==
    /\ busy_pc[t] = "func"
    /\ busy_pc' = [busy_pc EXCEPT ![t] = "idle"]
    /\ busy_calls' = [busy_calls EXCEPT ![t] = @ + 1]
    /\ busy_last' = [busy_last EXCEPT ![t] = "BaseException"]
    /\ UNCHANGED is_busy
    /\ UNCHANGED notBusy

\* 116 left out: the call returns with is_busy as it is
BusyReturnOnly(t) ==
    /\ busy_pc[t] = "after"
    /\ busy_pc' = [busy_pc EXCEPT ![t] = "idle"]
    /\ busy_calls' = [busy_calls EXCEPT ![t] = @ + 1]
    /\ UNCHANGED <<is_busy, busy_last>>
    /\ UNCHANGED notBusy

\* 116: self.is_busy = False, and the call returns
BusyClear(t) ==
    /\ busy_pc[t] = "after"
    /\ is_busy' = FALSE
    /\ busy_pc' = [busy_pc EXCEPT ![t] = "idle"]
    /\ busy_calls' = [busy_calls EXCEPT ![t] = @ + 1]
    /\ UNCHANGED busy_last
    /\ UNCHANGED notBusy

NextBusy ==
    \E t \in Threads :
        \/ BusyReject(t)
        \/ BusyTest(t)
        \/ BusySet(t)
        \/ FuncReturn(t)
        \/ FuncRaise(t)
        \/ FuncAbort(t)
        \/ BusyClear(t)

\* ------------------------------------------------------------------------
\* utils.retry: one call of the wrapper f_retry
\* ------------------------------------------------------------------------
\* how an invocation of the wrapped function ends: it returns, it raises
\* ExceptionToCheck, or it raises an exception of another class
Returns == "returned"
RaisesChecked == "ExceptionToCheck"
RaisesOther == "OtherException"

\* 70: mtries, mdelay = tries, delay
InitRetry ==
    /\ retry_args \in [tries : 0..MaxTries, delay : 0..MaxDelay, backoff : 0..MaxBackoff]
    /\ mtries = retry_args.tries
    /\ mdelay = retry_args.delay
    /\ retry_calls = <<>>
    /\ retry_waits = <<>>
    /\ retry_ret = "running"

IdleRetry ==
    /\ retry_args = [tries |-> 0, delay |-> 0, backoff |-> 0]
    /\ mtries = 0
    /\ mdelay = 0
    /\ retry_calls = <<>>
    /\ retry_waits = <<>>
    /\ retry_ret = "running"

notRetry == <<bracketVars, checkVars, buildVars, labelVars, resolveVars, rebuildVars,
              fileVars, busyVars>>

\* a faulty variant: the loop goes on while a try is left
retry_loop_once_more(m) == m > 0

\* 71: while mtries > 1
retry_loop(m) == m > 1

\* 72-73: inside the loop f returns, and the wrapper returns its result
RetryReturn ==
    /\ retry_ret = "running"
    /\ retry_loop(mtries)
    /\ retry_calls' = Append(retry_calls, Returns)
    /\ retry_ret' = Returns
    /\ UNCHANGED <<retry_args, mtries, mdelay, retry_waits>>
    /\ UNCHANGED notRetry

\* 72-79: inside the loop f raises ExceptionToCheck; the wrapper logs,
\* sleeps mdelay, counts the try and multiplies the delay
RetryCatch ==
    /\ retry_ret = "running"
    /\ retry_loop(mtries)
    /\ retry_calls' = Append(retry_calls, RaisesChecked)
    /\ retry_waits' = Append(retry_waits, mdelay)
    /\ mtries' = mtries - 1
    /\ mdelay' = mdelay * retry_args.backoff
    /\ UNCHANGED <<retry_args, retry_ret>>
    /\ UNCHANGED notRetry

\* 72-74: inside the loop f raises an exception the except clause does not
\* name; it leaves the wrapper
RetryPropagate ==
    /\ retry_ret = "running"
    /\ retry_loop(mtries)
    /\ retry_calls' = Append(retry_calls, RaisesOther)
    /\ retry_ret' = RaisesOther
    /\ UNCHANGED <<retry_args, mtries, mdelay, retry_waits>>
    /\ UNCHANGED notRetry

\* 80: the loop is over, `return f(*args, **kwargs)`: whatever the
\* invocation does reaches the caller
RetryLastCall ==
    /\ retry_ret = "running"
    /\ ~retry_loop(mtries)
    /\ \E o \in {Returns, RaisesChecked, RaisesOther} :
        /\ retry_calls' = Append(retry_calls, o)
        /\ retry_ret' = o
    /\ UNCHANGED <<retry_args, mtries, mdelay, retry_waits>>
    /\ UNCHANGED notRetry

NextRetry == RetryReturn \/ RetryCatch \/ RetryPropagate \/ RetryLastCall

\* ------------------------------------------------------------------------
\* init_addon on one project after another
\* ------------------------------------------------------------------------
\* the provider after __init__ (10-26); the project at the path of the next
\* init_addon call has one of the descriptors and a catalog or none
InitProjects ==
    /\ po_disk \in { d \in PoDisks : KodiLangPaths[1] \in DOMAIN d
                                     /\ KodiLangPaths[2] \notin DOMAIN d }
    /\ addon_desc \in AddonDescriptors
    /\ addon_xml_file = ""
    /\ builtin_list = <<>>
    /\ addon_string_list = <<>>
    /\ settings_loaded = FALSE
    /\ use_native = FALSE
    /\ label_result = LabelResult("none", <<>>, <<>>, "")
    /\ disk = <<>>
    /\ inc_disk = IncludeDisk(<<IncNode("variable", "a", "")>>, <<>>)
    /\ font_disk = [f \in {FolderA} |-> <<FontNode("a")>>]
    /\ xml_folders = <<>>
    /\ window_file_list = <<>>
    /\ include_list = <<>>
    /\ include_file_list = <<>>
    /\ fonts = <<>>
    /\ color_list = <<>>
    /\ string_list = <<>>
    /\ result = [op |-> "none", raised |-> "", listitems |-> <<>>]

\* the next init_addon call is for another path: the project there has its
\* own descriptor and its own catalog files
SwitchProject ==
    /\ \E desc \in AddonDescriptors, D \in SUBSET { AddonLangPaths[1], AddonLangPaths[2] } :
         /\ addon_desc' = desc
         /\ po_disk' = [p \in (DOMAIN po_disk \ { AddonLangPaths[1], AddonLangPaths[2] })
                                \cup D |-> PoFile(p)]
         /\ <<addon_desc', po_disk'>> # <<addon_desc, po_disk>>
    /\ label_result' = LabelResult("none", <<>>, <<>>, "")
    /\ UNCHANGED <<addon_xml_file, builtin_list, addon_string_list, settings_loaded,
                   use_native>>
    /\ UNCHANGED notLabels

NextProjects == GetSettings \/ GetBuiltinLabel \/ InitAddon \/ SwitchProject

\* ------------------------------------------------------------------------
\* Specifications
\* ------------------------------------------------------------------------
BracketsInit ==
    InitBrackets /\ IdleChecks /\ IdleBuild /\ IdleLabels /\ IdleResolve /\ IdleRebuild /\ IdleFile /\ IdleBusy /\ IdleRetry

SpecBrackets == BracketsInit /\ [][NextBrackets]_vars

ChecksInit ==
    InitChecks /\ IdleBrackets /\ IdleBuild /\ IdleLabels /\ IdleResolve /\ IdleRebuild /\ IdleFile /\ IdleBusy /\ IdleRetry

SpecChecks == ChecksInit /\ [][NextChecks]_vars

BuildInit == InitBuild /\ IdleBrackets /\ IdleLabels /\ IdleResolve /\ IdleRebuild /\ IdleFile /\ IdleBusy /\ IdleRetry

SpecBuild == BuildInit /\ [][NextBuild]_vars

LabelsInit == InitLabels /\ IdleBrackets /\ IdleBuild /\ IdleResolve /\ IdleRebuild /\ IdleFile /\ IdleBusy /\ IdleRetry

SpecLabels == LabelsInit /\ [][NextLabels]_vars

ResolveInit == InitResolve /\ IdleBrackets /\ IdleBuild /\ IdleLabels /\ IdleRebuild /\ IdleFile /\ IdleBusy /\ IdleRetry

SpecResolve == ResolveInit /\ [][NextResolve]_vars

RebuildInit == InitRebuild /\ IdleBrackets /\ IdleLabels /\ IdleResolve /\ IdleFile /\ IdleBusy /\ IdleRetry

SpecRebuild == RebuildInit /\ [][NextRebuild]_vars

FileInit ==
    InitFile /\ IdleBrackets /\ IdleChecks /\ IdleBuild /\ IdleLabels /\ IdleResolve
    /\ IdleRebuild /\ IdleBusy /\ IdleRetry

SpecFile == FileInit /\ [][NextFile]_vars

BusyInit ==
    InitBusy /\ IdleBrackets /\ IdleChecks /\ IdleBuild /\ IdleLabels /\ IdleResolve
    /\ IdleRebuild /\ IdleFile /\ IdleRetry

SpecBusy == BusyInit /\ [][NextBusy]_vars

\* a call that has passed the test goes on: its thread is scheduled again, and
\* the wrapped function comes to an end one way or another
BusyGoesOn(t) ==
    BusySet(t) \/ FuncReturn(t) \/ FuncRaise(t) \/ FuncAbort(t) \/ BusyClear(t)

SpecBusyFair == SpecBusy /\ \A t \in Threads : WF_vars(BusyGoesOn(t))

RetryInit ==
    InitRetry /\ IdleBrackets /\ IdleChecks /\ IdleBuild /\ IdleLabels /\ IdleResolve
    /\ IdleRebuild /\ IdleFile /\ IdleBusy

SpecRetry == RetryInit /\ [][NextRetry]_vars

ProjectsInit ==
    InitProjects /\ IdleBrackets /\ IdleBuild /\ IdleResolve /\ IdleRebuild /\ IdleFile
    /\ IdleBusy /\ IdleRetry

SpecProjects == ProjectsInit /\ [][NextProjects]_vars


\* ---- the property check_brackets is held against ------------------------
IsBracket(c) == InSeq(c, push_chars) \/ InSeq(c, pop_chars)

Partner(o, c) ==
    \/ (o = "<" /\ c = ">")
    \/ (o = "(" /\ c = ")")
    \/ (o = "{" /\ c = "}")
    \/ (o = "[" /\ c = "]")

\* properly nested: empty, or  o X c Y  with o, c partners and X, Y nested
RECURSIVE Nested(_)
Nested(f) ==
    \/ f = <<>>
    \/ \E k \in 2..Len(f) :
          /\ Partner(f[1], f[k])
          /\ Nested(SubSeq(f, 2, k - 1))
          /\ Nested(SubSeq(f, k + 1, Len(f)))

BracketsOf(s) == SelectSeq(s, IsBracket)

\* C1: check_brackets(s) returns True exactly when the bracket characters of
\* s, every other character ignored, are properly nested over <>, (), {}, [];
\* "[A][B]" and "[[]]" pass, "[A(B]" and "][" fail.
C1_CheckBracketsIsNesting ==
    ret # "running" =>
        /\ ret = PyBool(Nested(BracketsOf(label)))
        /\ (label = <<"[", "A", "]", "[", "B", "]">> => ret = "True")
        /\ (label = <<"[", "[", "]", "]">> => ret = "True")
        /\ (label = <<"[", "A", "(", "B", "]">> => ret = "False")
        /\ (label = <<"]", "[">> => ret = "False")

\* a label of four brackets mixing two bracket families was accepted
C1_Witness ==
    /\ ret = "True"
    /\ Len(label) = 4
    /\ InSeq("(", label) /\ InSeq("[", label)

\* ---- what the check passes are held against -----------------------------
CheckedKinds == {"variable", "include", "font"}

AllNames == Names \cup {"-"}

KindPass(kind) ==
    CASE kind = "variable" -> "check_variables"
      [] kind = "include"  -> "check_includes"
      [] kind = "font"     -> "check_fonts"

UndefinedText(kind) ==
    CASE kind = "variable" -> "Variable not defined"
      [] kind = "include"  -> "Include not defined"
      [] kind = "font"     -> "Font not defined"

UnusedText(kind) ==
    CASE kind = "variable" -> "Unused variable"
      [] kind = "include"  -> "Unused include"
      [] kind = "font"     -> "Unused font"

\* the folder's registry (font set for fonts) holds a definition of the name
Defined(kind, folder, N) ==
    IF kind = "font"
    THEN /\ folder \in DOMAIN fonts
         /\ \E i \in 1..Len(fonts[folder]) : fonts[folder][i].name = N
    ELSE \E i \in 1..Len(include_list[folder]) :
            /\ include_list[folder][i].type = kind
            /\ include_list[folder][i].name = N

\* the reference occurrences the scanner extracts from the folder's files
Extracted(kind, folder) ==
    CASE kind = "variable" ->
            FolderRefs(folder, window_file_list, LAMBDA p : VarRefsOfFile(p, disk))
      [] kind = "include" ->
            FolderRefs(folder, window_file_list, LAMBDA p : IncludeRefsOfFile(p, disk))
      [] kind = "font" ->
            FolderRefs(folder, window_file_list, LAMBDA p : get_refs_from_file(p, disk))

Referenced(kind, folder, N) == N \in NamesIn(Extracted(kind, folder))

\* the returned list holds a diagnostic with this message for a file of folder
Reported(text, folder, N) ==
    \E i \in 1..Len(result.listitems) :
        /\ result.listitems[i].message = <<text, N>>
        /\ result.listitems[i].file.folder = folder

\* C2: per folder and kind (variable, include, font), every name defined or
\* referenced in the folder is in exactly one class: reported unused (defined,
\* never referenced), silent (defined and referenced) or reported undefined
\* (referenced, not defined); never both undefined and unused.
C2_OneClassPerName ==
    \A kind \in CheckedKinds :
        result.op = KindPass(kind) =>
            \A folder \in Folders, N \in AllNames :
                (Defined(kind, folder, N) \/ Referenced(kind, folder, N)) =>
                    /\ Reported(UnusedText(kind), folder, N)
                         <=> (Defined(kind, folder, N) /\ ~Referenced(kind, folder, N))
                    /\ Reported(UndefinedText(kind), folder, N)
                         <=> (Referenced(kind, folder, N) /\ ~Defined(kind, folder, N))

\* ---- C3 ------------------------------------------------------------------
\* the window files of a folder that check_ids has read when it returns or
\* raises: those before the first file, in folder and file order, without a tree
HasUnparsable(folder) ==
    \E j \in 1..Len(window_file_list[folder]) :
        RootIsNone(Path(folder, window_file_list[folder][j]), disk)

ReadByCheckIds(folder) ==
    LET names == window_file_list[folder]
        at == CHOOSE i \in 1..Len(xml_folders) : xml_folders[i] = folder
        bad == { j \in 1..Len(names) : RootIsNone(Path(folder, names[j]), disk) }
        upto == IF bad = {} THEN Len(names)
                ELSE (CHOOSE j \in bad : \A k \in bad : j <= k) - 1
    IN  IF \E i \in 1..(at - 1) : HasUnparsable(xml_folders[i])
        THEN <<>>
        ELSE SubSeq(names, 1, upto)

\* the reference occurrences check_ids has extracted from those files
IdRefs(folder, kind) ==
    FolderRefs(folder, [f \in Folders |-> ReadByCheckIds(f)],
               LAMBDA p : RefsOfKind(p, disk[p].lines, kind, "visible"))

RootIds(folder) ==
    { disk[Path(folder, window_file_list[folder][j])].root_id :
        j \in { k \in 1..Len(window_file_list[folder]) :
                  /\ disk[Path(folder, window_file_list[folder][k])].parses
                  /\ disk[Path(folder, window_file_list[folder][k])].root_id # "" } }

IdDefs(folder) ==
    NamesIn(FolderRefs(folder, window_file_list,
                       LAMBDA p : IF RootIsNone(p, disk) THEN <<>>
                                  ELSE RefsOfKind(p, disk[p].lines, "iddef", "control")))

\* the number of diagnostics with this message text returned for occurrence R
DiagnosticsFor(R, text) ==
    Cardinality({ i \in 1..Len(result.listitems) :
                    /\ result.listitems[i].message = <<text, R.name>>
                    /\ result.listitems[i].file = R.file
                    /\ result.listitems[i].line = R.line })

\* every occurrence of refs gets one diagnostic when it has neither a
\* definition nor an allow-list entry, and none otherwise
OnePerUndefined(refs, text, Resolves(_)) ==
    \A i \in 1..Len(refs) :
        DiagnosticsFor(refs[i], text) = IF Resolves(refs[i]) THEN 0 ELSE 1

\* C3: every extracted reference occurrence (variable, include, font, window
\* id, control id, label) without a matching definition and outside the
\* built-in allow-lists gets exactly one undefined-reference diagnostic, with
\* the file and line recorded at extraction; one with a definition gets none.
\* (A control match whose parentheses are empty names no id: it is not held
\* to be a reference.)
C3_OneUndefinedPerOccurrence ==
    \A folder \in Folders :
        /\ \A kind \in CheckedKinds :
              result.op = KindPass(kind) =>
                  OnePerUndefined(Extracted(kind, folder), UndefinedText(kind),
                                  LAMBDA R : \/ Defined(kind, folder, R.name)
                                             \/ (kind = "font" /\ R.name = "-"))
        /\ result.op = "check_ids" =>
              /\ OnePerUndefined(IdRefs(folder, "windowref"), "Window ID not defined",
                                 LAMBDA R : \/ R.name \in RootIds(folder)
                                            \/ PyInt(R.name) \in builtin_window_ids)
              /\ OnePerUndefined(IdRefs(folder, "controlref"),
                                 "Control / Item ID not defined",
                                 LAMBDA R : R.name = "" \/ R.name \in IdDefs(folder))
        /\ result.op = "check_labels" =>
              OnePerUndefined(FolderRefs(folder, window_file_list,
                                         LAMBDA p : LabelRefsOfFile(p, disk)),
                              "Label not defined",
                              LAMBDA R : ~LabelUndefined(R, string_list))

\* ---- C4 ------------------------------------------------------------------
\* the window file lists without the files whose markup does not parse
ParsedOnly(wfl) ==
    [f \in DOMAIN wfl |-> SelectSeq(wfl[f], LAMBDA n : ~RootIsNone(Path(f, n), disk))]

\* what the pass returns for the files that parse
OnParsedFiles(op) ==
    CASE op = "check_includes" ->
            check_includes_from(
                [il |-> include_list, ifl |-> include_file_list, listitems |-> <<>>],
                xml_folders, 1, ParsedOnly(window_file_list), disk, inc_disk).listitems
      [] op = "check_labels" ->
            check_labels(xml_folders, ParsedOnly(window_file_list), disk, string_list)
      [] op = "check_values" ->
            check_values_from(xml_folders, 1, ParsedOnly(window_file_list), disk)
      [] op = "check_ids" ->
            check_ids_from([listitems |-> <<>>, raised |-> ""],
                           xml_folders, 1, ParsedOnly(window_file_list), disk).listitems

\* C4: in check_includes, check_labels, check_values and check_ids a window
\* file whose markup cannot be parsed is skipped: the pass does not raise and
\* returns the diagnostics of the remaining files.
C4_UnparsableFileSkipped ==
    result.op \in {"check_includes", "check_labels", "check_values", "check_ids"} =>
        /\ result.raised = ""
        /\ result.listitems = OnParsedFiles(result.op)

\* ---- C5 ------------------------------------------------------------------
\* C5: a folder without a font-set file has the empty font set: check_fonts
\* after get_fonts does not raise, and every font reference of that folder
\* other than "-" is reported undefined.
C5_MissingFontFileIsEmptySet ==
    result.op = "check_fonts" =>
        \A folder \in Folders \ DOMAIN font_disk :
            /\ result.raised = ""
            /\ \A i \in 1..Len(Extracted("font", folder)) :
                  LET R == Extracted("font", folder)[i]
                  IN  R.name # "-" => DiagnosticsFor(R, "Font not defined") = 1

\* ---- C6 ------------------------------------------------------------------
\* C6: variable, include and font checks are scoped per folder: a name
\* referenced in F and defined only in another folder G is reported undefined
\* in F, and a definition in G is reported unused unless a window file of G
\* references it.
C6_ScopedPerFolder ==
    \A kind \in CheckedKinds :
        result.op = KindPass(kind) =>
            \A F \in Folders, G \in Folders, N \in AllNames :
                (F # G /\ Defined(kind, G, N)) =>
                    /\ (Referenced(kind, F, N) /\ ~Defined(kind, F, N))
                          => Reported(UndefinedText(kind), F, N)
                    /\ Reported(UnusedText(kind), G, N) <=> ~Referenced(kind, G, N)

\* ---- C7 ------------------------------------------------------------------
\* C7: a check pass leaves include_list, include_file_list, fonts, color_list
\* and string_list with the same entries and the same fields.
C7_PassesLeaveRegistries ==
    [][ /\ include_list' = include_list
        /\ include_file_list' = include_file_list
        /\ fonts' = fonts
        /\ color_list' = color_list
        /\ string_list' = string_list ]_vars

\* ------------------------------------------------------------------------
\* C8
\* ------------------------------------------------------------------------
\* the include files a file names in file attributes the build follows
FileEdges(p) ==
    IF p \in DOMAIN inc_disk
    THEN { Path(p.folder, inc_disk[p][i].file) :
             i \in { j \in 1..Len(inc_disk[p]) : FollowsFile(inc_disk[p][j]) } }
    ELSE {}

\* the files reached from the files of S in one step or more
RECURSIVE ReachedFrom(_, _)
ReachedFrom(S, n) ==
    LET next == UNION { FileEdges(p) : p \in S }
    IN  IF n = 0 THEN {} ELSE next \cup ReachedFrom(next, n - 1)

\* the file update_include_list starts from
IncludesFile ==
    check_paths(<< Path(FolderA, "Includes.xml"), Path(FolderA, "includes.xml") >>,
                DOMAIN inc_disk \cup inc_unparsable)

GraphFiles == {IncludesFile} \cup ReachedFrom({IncludesFile}, Cardinality(IncludeFileNames))

IncludeGraphAcyclic ==
    \A p \in GraphFiles : p \notin ReachedFrom({p}, Cardinality(IncludeFileNames))

\* C8: the build of the include registry comes back to its caller exactly when
\* the graph of include files reachable from the includes file of the folder
\* through file attributes (the skin shortcuts file left out) is acyclic, and
\* recurses without bound when it is not.
C8_BuildTerminatesIffAcyclic ==
    /\ outcome \in {"returned", "AttributeError"} => IncludeGraphAcyclic
    /\ outcome = "unbounded" => ~IncludeGraphAcyclic

\* ------------------------------------------------------------------------
\* C9
\* ------------------------------------------------------------------------
Completed(op) == label_result.op = op /\ label_result.raised = ""

HasId(strings, selection) ==
    \E i \in 1..Len(strings) : strings[i].id = <<"#">> \o selection

\* the first entry of a catalog that carries the id
FirstWithId(strings, selection) ==
    strings[CHOOSE i \in 1..Len(strings) :
                /\ strings[i].id = <<"#">> \o selection
                /\ \A j \in 1..(i - 1) : strings[j].id # <<"#">> \o selection]

\* the text return_label gives for an entry
TextOf(entry) ==
    IF use_native THEN entry.string \o <<"<", "b", "r", ">">> \o entry.native_string
    ELSE entry.string

NoneExists(paths) == \A i \in 1..Len(paths) : paths[i] \notin DOMAIN po_disk

\* C9: once update_labels has completed on a recognised project, string_list
\* is builtin_list followed by addon_string_list, and a catalog without a file
\* is the empty sequence; a lookup by id returns the first entry of string_list
\* with that id, so an entry of the engine catalog shadows the entries of the
\* project catalog with its id.
C9_MergedCatalogEngineFirst ==
    /\ (Completed("update_labels") \/ Completed("init_addon")) /\ addon_xml_file # ""
         => /\ string_list = builtin_list \o addon_string_list
            /\ NoneExists(AddonLangPaths) => addon_string_list = <<>>
            /\ \A i \in 1..Len(builtin_list) : string_list[i] = builtin_list[i]
    /\ Completed("get_builtin_label")
         => (NoneExists(KodiLangPaths) => builtin_list = <<>>)
    /\ Completed("return_label")
         => LET selection == label_result.sel
            IN  /\ isdigit(selection) /\ HasId(string_list, selection)
                     => label_result.out = TextOf(FirstWithId(string_list, selection))
                /\ ~(isdigit(selection) /\ HasId(string_list, selection))
                     => label_result.out = <<>>
                /\ ( /\ string_list = builtin_list \o addon_string_list
                     /\ isdigit(selection)
                     /\ HasId(builtin_list, selection) )
                     => label_result.out = TextOf(FirstWithId(builtin_list, selection))

\* a lookup of an id that both catalogs hold, after the catalogs were merged
C9_Witness ==
    /\ Completed("return_label")
    /\ label_result.sel = <<"1">>
    /\ HasId(builtin_list, <<"1">>)
    /\ HasId(addon_string_list, <<"1">>)
    /\ string_list = builtin_list \o addon_string_list
    /\ label_result.out = <<"E", "1">>
    /\ NoneExists(<<KodiLangPaths[2]>>)

\* ------------------------------------------------------------------------
\* C10
\* ------------------------------------------------------------------------
\* a call that came back with a value
ResolveReturned(op) == resolve_result.op = op /\ resolve_result.out # RecursionError

EntryNames(folder) == { include_list[folder][i].name : i \in 1..Len(include_list[folder]) }

\* the first entry of the registry of the folder that carries the name
FirstEntry(name, folder) ==
    include_list[folder][CHOOSE i \in 1..Len(include_list[folder]) :
                            /\ include_list[folder][i].name = name
                            /\ \A j \in 1..(i - 1) : include_list[folder][j].name # name]

\* an include node that has a replacement
HasReplacement(node, folder) ==
    /\ node.tag = "include"
    /\ node.text # ""
    /\ node.text \in EntryNames(folder)

SameNode(a, b) ==
    /\ a.tag = b.tag
    /\ a.name = b.name
    /\ a.file = b.file
    /\ a.text = b.text
    /\ Len(a.kids) = Len(b.kids)

\* `after` is `before` with, at every position below it, an include node that
\* has a replacement replaced by the inlined fragment of its first entry, and
\* every other node in place with its own tag, attributes and text
RECURSIVE Inlined(_, _, _)
Inlined(before, after, folder) ==
    /\ SameNode(before, after)
    /\ \A i \in 1..Len(before.kids) :
         IF HasReplacement(before.kids[i], folder)
         THEN Inlined(fromstring(FirstEntry(before.kids[i].text, folder).content),
                      after.kids[i], folder)
         ELSE Inlined(before.kids[i], after.kids[i], folder)

\* C10: resolve_include returns no replacement exactly when the node has no
\* text or its text is the name of no entry of the registry of the folder;
\* resolve_includes replaces each include node that has a replacement by the
\* inlined fragment of the first entry with that name and leaves every other
\* include node at its position, unchanged.
C10_ResolveReplacesFirstMatch ==
    /\ ResolveReturned("resolve_include")
         => LET ref == resolve_result.arg
                folder == resolve_result.folder
            IN  /\ resolve_result.out = None
                     <=> (ref.text = "" \/ ref.text \notin EntryNames(folder))
                /\ resolve_result.out # None
                     => Inlined(fromstring(FirstEntry(ref.text, folder).content),
                                resolve_result.out, folder)
    /\ ResolveReturned("resolve_includes")
         => Inlined(resolve_result.arg, resolve_result.out, resolve_result.folder)

\* a tree with an include node whose name two entries carry, with different
\* content, next to an include node that has no replacement
C10_Witness ==
    /\ ResolveReturned("resolve_includes")
    /\ resolve_result.folder = FolderA
    /\ Len(include_list[FolderA]) = 2
    /\ include_list[FolderA][1].name = "a"
    /\ include_list[FolderA][2].name = "a"
    /\ include_list[FolderA][1].content # include_list[FolderA][2].content
    /\ resolve_result.arg.kids = << IncludeRef("a"), IncludeRef("c") >>
    /\ resolve_result.out.kids[1] = fromstring(include_list[FolderA][1].content)
    /\ resolve_result.out.kids[2] = IncludeRef("c")

\* ------------------------------------------------------------------------
\* C11
\* ------------------------------------------------------------------------
\* C11: resolve_includes works on a copy: after a call that returned, the tree
\* object the caller passed holds the nodes it held before the call, in the
\* same order, and only the returned tree holds the inlined fragments.
C11_ResolveIncludesOnCopy ==
    ResolveReturned("resolve_includes") => xml_tree = resolve_result.arg

\* ------------------------------------------------------------------------
\* C12
\* ------------------------------------------------------------------------
\* the registry as update_include_list built it from the include files
RegistryAsBuilt == update_include_list(<<>>, xml_folders, inc_disk).il

CalledTwice ==
    /\ resolve_result.op = "resolve_include"
    /\ resolve_prev.op = "resolve_include"
    /\ resolve_prev.arg = resolve_result.arg
    /\ resolve_prev.folder = resolve_result.folder

RegistryRebuilt == update_include_list(<<>>, xml_folders, inc_disk).il

\* C13: whenever a rebuild of the registry and a check pass run on different
\* threads, every read of a folder's registry by the check pass finds the
\* whole registry of that folder: the one from before the rebuild or the one
\* the rebuild ends with, never a missing or a partly filled one.
C13_CheckReadsWholeRegistry ==
    \A k \in 1..Len(seen) :
        /\ ~seen[k].missing
        /\ \/ seen[k].entries = registry_before[seen[k].folder]
           \/ seen[k].entries = RegistryRebuilt[seen[k].folder]

\* ---- C14 ----------------------------------------------------------------
InitAddonDone == label_result.op = "init_addon"

\* the project is not recognised: no descriptor, or a scriptable addon with
\* neither default-skin path on disk
NotRecognised == addon_desc = "absent" \/ addon_desc = "python"

\* the folders a descriptor names or a found conventional path
FoldersOfProject == {FolderA, FolderB} \cup SkinPathsFound(addon_desc)

\* C14: after init_addon on a project that is not recognised, xml_folders is
\* empty, no registry, colour set or font set is built and no error is
\* raised; in every case each element of xml_folders is a folder the
\* descriptor names or a conventional path that was found.
C14_InitAddonUnrecognisedProject ==
    InitAddonDone =>
        /\ NotRecognised =>
               /\ xml_folders = <<>>
               /\ include_list = <<>>
               /\ include_file_list = <<>>
               /\ color_list = <<>>
               /\ fonts = <<>>
               /\ label_result.raised = ""
        /\ \A i \in 1..Len(xml_folders) : xml_folders[i] \in FoldersOfProject

\* ---- C15 ----------------------------------------------------------------
CheckFileDone == file_result.op = "check_file"

\* how many entries of the result are about the element at position i and
\* carry the message of one format
CountAt(i, format) ==
    Cardinality({ k \in 1..Len(file_result.listitems) :
                    /\ file_result.listitems[k].line = i
                    /\ file_result.listitems[k].message.format = format })

\* the expressions of an element the bracket-balance pass covers: its text
\* when it is one of the four condition tags, its condition attribute
Expressions(e) ==
    (IF e.tag \in {"visible", "enable", "usealttexture", "selected"} THEN <<e.text>> ELSE <<>>)
    \o (IF HasAttr(e, "condition") THEN <<AttrValue(e, "condition")>> ELSE <<>>)

EmptyExpressions(e) ==
    Cardinality({ k \in 1..Len(Expressions(e)) : Expressions(e)[k] = <<>> })

RejectedExpressions(e) ==
    Cardinality({ k \in 1..Len(Expressions(e)) :
                    Expressions(e)[k] # <<>> /\ ~check_brackets(Expressions(e)[k]) })

\* C15: check_file reports one "Empty condition" entry, and no "Brackets do
\* not match" entry, for every empty expression the bracket-balance pass
\* covers, and a "Brackets do not match" entry for a non-empty expression
\* exactly when check_brackets rejects it.
C15_BracketDiagnostics ==
    CheckFileDone =>
        \A i \in Below(xml_doc) :
            /\ CountAt(i, "Empty condition: %s") = EmptyExpressions(xml_doc[i])
            /\ CountAt(i, "Brackets do not match: %s") = RejectedExpressions(xml_doc[i])

\* ---- C16 ----------------------------------------------------------------
CheckLabelsDone == file_result.op = "check_labels"

\* no sentinel, not purely numeric, a letter somewhere in the text
LiteralText(text) ==
    /\ ~InSeq("$", text)
    /\ ~isdigit(text)
    /\ \E k \in 1..Len(text) : text[k] \in Letters

\* C16: check_labels flags the text of a label, altlabel or label2 element as
\* untranslated exactly when the text holds no "$", is not purely numeric and
\* holds a letter anywhere.
C16_UntranslatedLabel ==
    CheckLabelsDone =>
        \A i \in Below(xml_doc) :
            xml_doc[i].tag \in {"label", "altlabel", "label2"} =>
                (CountAt(i, "Label in <%s> not translated: %s") >= 1
                    <=> LiteralText(xml_doc[i].text))

\* ---- C17 ----------------------------------------------------------------
\* the elements of the tag of element i under the parent of element i
SameTagSiblings(doc, i) ==
    { j \in Children(doc, doc[i].parent) : doc[j].tag = doc[i].tag }

IsFirstOfTag(doc, i) == \A j \in SameTagSiblings(doc, i) : i <= j

\* C17: among the elements of one singleton tag under one parent, check_file
\* never reports the first, and reports each later one that has no children
\* exactly once; a tag that occurs once under its parent is never reported.
C17_DuplicateTags ==
    CheckFileDone =>
        \A i \in Below(xml_doc) :
            xml_doc[i].tag \in double_tags =>
                CountAt(i, "Invalid multiple tags for %s: <%s>") =
                    IF ~IsFirstOfTag(xml_doc, i) /\ Children(xml_doc, i) = {} THEN 1 ELSE 0

\* ---- C18 ----------------------------------------------------------------
\* C18: the entries check_file returns for one file are in document order of
\* the elements they are about.
C18_DocumentOrder ==
    CheckFileDone =>
        \A a \in 1..Len(file_result.listitems), b \in 1..Len(file_result.listitems) :
            a < b => file_result.listitems[a].line <= file_result.listitems[b].line

\* ---- C19 ----------------------------------------------------------------
\* C19: for every child of a parent a structural selector picks, check_file
\* returns exactly one invalid-tag entry when the selector does not allow the
\* tag of the child, and none when it does.
C19_StructuralCheck ==
    CheckFileDone =>
        \A i \in Below(xml_doc) :
            \A c \in 1..Len(tag_checks) :
                Selected(xml_doc, i, tag_checks[c]) =>
                    CountAt(i, "invalid tag for <%s>: <%s>") =
                        IF xml_doc[i].tag \in tag_checks[c].allowed THEN 0 ELSE 1

\* ---- C20 ----------------------------------------------------------------
\* the calls that are past the is_busy test and run their wrapped function
InFunc == { t \in Threads : busy_pc[t] = "func" }

\* C20: at no time do two decorated calls on the object run their wrapped
\* functions.
C20_OneBodyAtATime == Cardinality(InFunc) <= 1

\* ---- C21 ----------------------------------------------------------------
RetryDone == retry_ret # "running"

Invocations == Len(retry_calls)

RECURSIVE Power(_, _)
Power(b, n) == IF n = 0 THEN 1 ELSE b * Power(b, n - 1)

\* every invocation but the last raised ExceptionToCheck, and what the last
\* one did is what reached the caller
FirstUncaughtEnds ==
    /\ \A k \in 1..(Invocations - 1) : retry_calls[k] = RaisesChecked
    /\ retry_ret = retry_calls[Invocations]

\* one wait per failed invocation that was retried, the k-th of
\* delay * backoff^(k-1)
WaitsAreGeometric ==
    /\ Len(retry_waits) = Invocations - 1
    /\ \A k \in 1..Len(retry_waits) :
        retry_waits[k] = retry_args.delay * Power(retry_args.backoff, k - 1)

\* after tries-1 failed invocations there is one more, and none after it
LastTryReachesCaller ==
    (retry_args.tries >= 1 /\ Invocations >= retry_args.tries) =>
        Invocations = retry_args.tries

\* C21, as stated: the wrapped function is invoked at least once and at most
\* `tries` times; the first invocation that does not raise ExceptionToCheck
\* ends the call with its result; after tries-1 failed invocations the
\* outcome of the last one reaches the caller; the wait before the k-th retry
\* is delay * backoff^(k-1).
C21_RetryAsStated ==
    RetryDone =>
        /\ Invocations >= 1
        /\ Invocations <= retry_args.tries
        /\ FirstUncaughtEnds
        /\ LastTryReachesCaller
        /\ WaitsAreGeometric

\* C21, amended: the same, the function being invoked at most `tries` times
\* when tries >= 1 and exactly once when tries < 1.
C21_RetryBounded ==
    RetryDone =>
        /\ Invocations >= 1
        /\ Invocations <= (IF retry_args.tries >= 1 THEN retry_args.tries ELSE 1)
        /\ FirstUncaughtEnds
        /\ LastTryReachesCaller
        /\ WaitsAreGeometric

C21_Witness ==
    /\ RetryDone
    /\ retry_args.tries = 3
    /\ Invocations = 3
    /\ retry_ret = RaisesChecked
    /\ retry_waits = <<3, 6>>

\* ---- C22 ----------------------------------------------------------------
\* the legal values of a tag, as characters; empty for a tag without a set
LegalValues(tag) ==
    UNION { { Chars(w) : w \in allowed_text[c].allowed } :
              c \in { d \in 1..Len(allowed_text) : tag \in allowed_text[d].tags } }

HasLegalValues(tag) == \E c \in 1..Len(allowed_text) : tag \in allowed_text[c].tags

\* C22: check_file does not fail, and for every element of a tag with an
\* enumerated set of values it reports an invalid value exactly when the text
\* of the element, lower-cased, is not in the set; an element of such a tag
\* without text is reported like any other value outside the set.
C22_EnumeratedValues ==
    CheckFileDone =>
        /\ file_result.raised = ""
        /\ \A i \in Below(xml_doc) :
            HasLegalValues(xml_doc[i].tag) =>
                CountAt(i, "invalid value for %s: %s") =
                    IF lower(xml_doc[i].text) \in LegalValues(xml_doc[i].tag) THEN 0 ELSE 1

\* ---- C23 ----------------------------------------------------------------
\* the descriptor parses and a folder of the project was found
Recognised == addon_desc = "skin" \/ addon_desc = "python_skin"

\* what the project at the path holds: its registry, its include files, its
\* colours, its fonts and the engine catalog followed by its own catalog
RegistriesOfProject ==
    LET built == update_include_list(<<>>, xml_folders, inc_disk)
        addon_lang_path == checkPaths(AddonLangPaths, DOMAIN po_disk)
        own == IF addon_lang_path # "" THEN get_label_list(po_disk[addon_lang_path])
               ELSE <<>>
    IN  [include_list |-> built.il, include_file_list |-> built.ifl,
         color_list |-> get_colors(ColorsFile),
         fonts |-> get_fonts(xml_folders, font_disk),
         string_list |-> builtin_list \o own]

\* C23: after init_addon has returned, whatever projects were loaded before,
\* the include registry, the include file list, the colour list, the font
\* set and the merged catalog hold what the project at the path holds and
\* nothing else; all of them are empty when it is not a recognised project.
C23_OnlyThisProject ==
    (InitAddonDone /\ label_result.raised = "") =>
        IF Recognised
        THEN /\ include_list = RegistriesOfProject.include_list
             /\ include_file_list = RegistriesOfProject.include_file_list
             /\ color_list = RegistriesOfProject.color_list
             /\ fonts = RegistriesOfProject.fonts
             /\ string_list = RegistriesOfProject.string_list
        ELSE /\ include_list = <<>>
             /\ include_file_list = <<>>
             /\ color_list = <<>>
             /\ fonts = <<>>
             /\ string_list = <<>>

\* ---- C24 ----------------------------------------------------------------
\* the call of t has ended in what `except Exception` does not catch
Aborted(t) == busy_last[t] = "BaseException"

\* a call that found is_busy false comes to its end, and at its end it has
\* set is_busy to False, unless its function ended in a BaseException
CallClears ==
    /\ \A t \in Threads : []<>(busy_pc[t] = "idle")
    /\ [][\A t \in Threads :
             (busy_pc[t] # "idle" /\ busy_pc'[t] = "idle") =>
                 (~is_busy' \/ Aborted(t)')]_vars

\* as long as no function ends in a BaseException, is_busy is false again
\* and again: no later call is rejected for ever
NotRejectedForEver == ([](\A t \in Threads : ~Aborted(t))) => []<>(~is_busy)

\* a call is rejected only when is_busy is set, it stays out of the wrapped
\* function and it leaves is_busy set
RejectLeavesBusy ==
    [][\A t \in Threads :
          (busy_last'[t] = "rejected" /\ busy_calls'[t] # busy_calls[t]) =>
              (is_busy /\ is_busy' /\ busy_pc[t] = "idle" /\ busy_pc'[t] = "idle")]_vars

\* C24: every decorated call that found is_busy false sets it back to false
\* in the end, whether its function returned or raised an Exception, so later
\* calls are not rejected for ever; a call that found is_busy true returns
\* without running the function and leaves is_busy true.
C24_BusyCleared == CallClears /\ NotRejectedForEver /\ RejectLeavesBusy

\* one call has been rejected while another ran, and a call whose function
\* raised an Exception has returned with is_busy false
C24_Witness ==
    /\ ~is_busy
    /\ \E t \in Threads : busy_pc[t] = "idle" /\ busy_last[t] = "Exception"
    /\ \E t \in Threads : busy_last[t] = "rejected"

\* ---- C25 ----------------------------------------------------------------
\* the texts of the include nodes below a node
RECURSIVE IncludeTexts(_)
IncludeTexts(node) ==
    UNION { (IF node.kids[i].tag = "include" /\ node.kids[i].text # ""
             THEN { node.kids[i].text } ELSE {})
            \cup IncludeTexts(node.kids[i]) : i \in 1..Len(node.kids) }

Entries(folder) == 1..Len(include_list[folder])

\* entry i points to entry j: the content of i holds an include node whose
\* text is the name of j
PointsTo(i, j, folder) ==
    include_list[folder][j].name \in IncludeTexts(fromstring(include_list[folder][i].content))

\* the entries reached from the entries of S in one step or more
RECURSIVE EntriesReachedFrom(_, _, _)
EntriesReachedFrom(S, folder, k) ==
    LET next == { j \in Entries(folder) : \E i \in S : PointsTo(i, j, folder) }
    IN  IF k = 0 THEN {} ELSE next \cup EntriesReachedFrom(next, folder, k - 1)

OnCycle(i, folder) == i \in EntriesReachedFrom({i}, folder, Len(include_list[folder]))

Acyclic(folder) == \A i \in Entries(folder) : ~OnCycle(i, folder)

\* the entry resolve_include takes for a name: the first one
FirstIndex(name, folder) ==
    CHOOSE i \in Entries(folder) :
        /\ include_list[folder][i].name = name
        /\ \A j \in 1..(i - 1) : include_list[folder][j].name # name

IsFirst(i, folder) == i = FirstIndex(include_list[folder][i].name, folder)

\* the first entries reached from the first entries of S through first entries
RECURSIVE FollowedFrom(_, _, _)
FollowedFrom(S, folder, k) ==
    LET next == { j \in Entries(folder) :
                    IsFirst(j, folder) /\ \E i \in S : PointsTo(i, j, folder) }
    IN  IF k = 0 THEN {} ELSE next \cup FollowedFrom(next, folder, k - 1)

\* resolving the name comes back to an entry it is already resolving
Recurs(name, folder) ==
    /\ name \in EntryNames(folder)
    /\ LET first == FirstIndex(name, folder)
           n == Len(include_list[folder])
       IN  \E j \in {first} \cup FollowedFrom({first}, folder, n) :
               j \in FollowedFrom({j}, folder, n)

ResolveCalled == resolve_result.op \in {"resolve_include", "resolve_includes"}

\* the names the call has to resolve
NamesToResolve ==
    IF resolve_result.op = "resolve_include"
    THEN { resolve_result.arg.text } \ { "" }
    ELSE IncludeTexts(resolve_result.arg)

EndsWhenAcyclic ==
    (ResolveCalled /\ Acyclic(resolve_result.folder))
        => resolve_result.out # RecursionError

\* C25 as stated: both calls end for every tree when no entry of the
\* registry of the folder points back to itself; a call that has to resolve
\* the name of an entry that points back to itself, directly or through
\* other entries, has no end.
C25_ResolveAsStated ==
    /\ EndsWhenAcyclic
    /\ ResolveCalled =>
         \A i \in Entries(resolve_result.folder) :
            (/\ OnCycle(i, resolve_result.folder)
             /\ include_list[resolve_result.folder][i].name \in NamesToResolve)
                => resolve_result.out = RecursionError

\* C25 (amended): both calls end for every tree when no entry points back to
\* itself; a call has no end exactly when a name it has to resolve comes
\* back, through the first entries of the names, to an entry that is being
\* resolved.
C25_ResolveRecursion ==
    /\ EndsWhenAcyclic
    /\ ResolveCalled =>
         (resolve_result.out = RecursionError
            <=> \E name \in NamesToResolve : Recurs(name, resolve_result.folder))

\* resolve_include has returned the fragment of the first entry of a name
\* whose second entry includes itself
C25_Witness ==
    /\ resolve_result.op = "resolve_include"
    /\ resolve_result.out # RecursionError
    /\ resolve_result.out # None
    /\ \E i \in Entries(resolve_result.folder) :
          /\ OnCycle(i, resolve_result.folder)
          /\ include_list[resolve_result.folder][i].name = resolve_result.arg.text
====
